---- MODULE Spec2Model ----
(***************************************************************************)
(* Hawkshot: the brute-force scan engine of the dns / dir / vhost modules  *)
(* (work queue, worker pool, result list, ScanState checkpoint, progress   *)
(* bar) and the probes' match decisions.                                   *)
(*                                                                         *)
(* A session is a sequence of process launches that share one disk; each   *)
(* launch is one call of run_dns_enum / run_dir_scan / run_vhost_enum from *)
(* cli.main.  Strings built with f-strings are modelled as tuples of their *)
(* parts, Optional values as sequences of length 0 (None) or 1.            *)
(***************************************************************************)
EXTENDS Integers, Sequences, FiniteSets, Bags, TLC

\* ------------------------------------------------------------------ bounds
MaxWords == 2      \* longest wordlist explored
MaxThreads == 2    \* largest config.threads explored (the code allows 1..500)
MaxRuns == 2       \* launches per session

\* ------------------------------------------------------------ small helpers
None == <<>>
Some(x) == <<x>>
IsNone(o) == Len(o) = 0
The(o) == o[1]

Range(s) == {s[i] : i \in 1..Len(s)}

RECURSIVE SeqToBag(_)
SeqToBag(s) == IF s = <<>> THEN EmptyBag ELSE SetToBag({Head(s)}) (+) SeqToBag(Tail(s))

SeqsUpTo(S, n) == UNION {[1..k -> S] : k \in 0..n}

RECURSIVE Replace(_, _, _)
\* str.replace(old, new) on a sequence of characters
Replace(s, old, new) ==
    IF Len(s) < Len(old) THEN s
    ELSE IF SubSeq(s, 1, Len(old)) = old
         THEN new \o Replace(SubSeq(s, Len(old) + 1, Len(s)), old, new)
         ELSE <<Head(s)>> \o Replace(Tail(s), old, new)

RECURSIVE Concat(_)
Concat(ss) == IF ss = <<>> THEN <<>> ELSE Head(ss) \o Concat(Tail(ss))

\* ------------------------------------------------------------------ inputs
\* A Python str is a sequence of pieces (single characters, or opaque runs of
\* characters); concatenation and f-strings are \o.
Tokens == {<<"a">>, <<"b">>, <<"c">>}

\* A wordlist file is named after its lines: the path <<"a","b">> names the
\* file whose lines are a and b.  The wordlists explored: every one over a
\* and b, and those that hold c alone or with a.
WordlistPaths ==
    SeqsUpTo({"a", "b"}, MaxWords)
    \cup {w \in SeqsUpTo({"a", "c"}, MaxWords) : "c" \in Range(w) /\ w # <<"c", "c">>}

DomainTarget == <<"h", ".", "i", "o">>
UrlTargets == {<<"http", ":", "/", "/", "h", ".", "i", "o">>,
               <<"http", ":", "/", "/", "h", "_", "i", "o">>}

\* the subcommands of the parser and the targets each accepts
ModuleTargets ==
    {<<"dns", DomainTarget>>} \cup ({"dir"} \X UrlTargets)
    \cup {<<"vhost", t>> : t \in {u \in UrlTargets : "." \in Range(u)}}

BaseHost == <<"h", ".", "i", "o">>
\* --host is required; the vhost command lines give a domain or the empty
\* string
BaseHosts == {<<>>, BaseHost}

\* ------------------------------------------------------- Python / JSON values
PyStr(s) == <<"str", s>>
PyInt(n) == <<"int", n>>
PyNone == <<"NoneType">>

\* a dict is the sequence of its (key, value) items in insertion order
Get(d, k) == CHOOSE i \in 1..Len(d) : d[i][1] = k
Item(d, k) == d[Get(d, k)][2]
Keys(d) == {d[i][1] : i \in 1..Len(d)}
HasKey(d, k) == k \in Keys(d)

\* str(n) for an int n >= 0: its decimal digits
RECURSIVE IntStr(_)
IntStr(n) ==
    LET digit(d) == <<"0", "1", "2", "3", "4", "5", "6", "7", "8", "9">>[d + 1]
    IN IF n < 10 THEN <<digit(n)>> ELSE IntStr(n \div 10) \o <<digit(n % 10)>>

\* json.dump of one scalar, and json.load of it
JsonOfPy(v) ==
    CASE v[1] = "str" -> <<"string", v[2]>>
      [] v[1] = "int" -> <<"number", v[2]>>
      [] v[1] = "NoneType" -> <<"null">>

PyOfJson(j) ==
    CASE j[1] = "string" -> <<"str", j[2]>>
      [] j[1] = "number" -> <<"int", j[2]>>
      [] j[1] = "null" -> <<"NoneType">>

JsonObjectOfDict(d) == <<"object", [i \in 1..Len(d) |-> <<d[i][1], JsonOfPy(d[i][2])>>]>>
DictOfJsonObject(j) == [i \in 1..Len(j[2]) |-> <<j[2][i][1], PyOfJson(j[2][i][2])>>]

\* ------------------------------------------------------------ str operations
\* the characters of a piece of a str
Spell(piece) ==
    CASE piece = "http" -> <<"h", "t", "t", "p">>
      [] piece = "10.0.0.5" -> <<"1", "0", ".", "0", ".", "0", ".", "5">>
      [] piece = "10.0.0.6" -> <<"1", "0", ".", "0", ".", "0", ".", "6">>
      [] piece = "::1" -> <<":", ":", "1">>
      [] piece = "AAAA" -> <<"A", "A", "A", "A">>
      [] piece = "] " -> <<"]", " ">>
      [] piece = " -> " -> <<" ", "-", ">", " ">>
      [] piece = " (Length: " ->
            <<" ", "(", "L", "e", "n", "g", "t", "h", ":", " ">>
      [] piece = "www" -> <<"w", "w", "w">>
      [] piece = "mail" -> <<"m", "a", "i", "l">>
      [] piece = "api" -> <<"a", "p", "i">>
      [] piece = "    " -> [i \in 1..4 |-> " "]
      [] piece = "                                  " -> [i \in 1..34 |-> " "]
      [] OTHER -> <<piece>>

\* a str as the sequence of its characters
Chars(s) == Concat([i \in 1..Len(s) |-> Spell(s[i])])

\* ord(ch) for the characters that occur
CodePoint(ch) ==
    CASE ch = " " -> 32 [] ch = "(" -> 40 [] ch = ")" -> 41 [] ch = "-" -> 45
      [] ch = "." -> 46 [] ch = "/" -> 47 [] ch = "0" -> 48 [] ch = "1" -> 49
      [] ch = "2" -> 50 [] ch = "3" -> 51 [] ch = "4" -> 52 [] ch = "5" -> 53
      [] ch = "6" -> 54 [] ch = "7" -> 55 [] ch = "8" -> 56 [] ch = "9" -> 57
      [] ch = ":" -> 58 [] ch = ">" -> 62 [] ch = "A" -> 65 [] ch = "L" -> 76
      [] ch = "[" -> 91 [] ch = "]" -> 93 [] ch = "_" -> 95 [] ch = "a" -> 97
      [] ch = "b" -> 98 [] ch = "c" -> 99 [] ch = "e" -> 101 [] ch = "g" -> 103
      [] ch = "h" -> 104 [] ch = "i" -> 105 [] ch = "l" -> 108 [] ch = "m" -> 109
      [] ch = "n" -> 110 [] ch = "o" -> 111 [] ch = "p" -> 112 [] ch = "t" -> 116
      [] ch = "w" -> 119

\* s < t for two sequences of characters: by code point, a proper prefix first
RECURSIVE CharsLess(_, _)
CharsLess(s, t) ==
    IF t = <<>> THEN FALSE
    ELSE IF s = <<>> THEN TRUE
    ELSE IF Head(s) # Head(t) THEN CodePoint(Head(s)) < CodePoint(Head(t))
    ELSE CharsLess(Tail(s), Tail(t))

\* s < t for two strs
StrLess(s, t) == CharsLess(Chars(s), Chars(t))

\* s.ljust(width): s followed by spaces up to width characters (the runs of
\* 4 and of 34 spaces as one piece each)
Ljust(s, width) ==
    LET n == width - Len(Chars(s))
    IN CASE n <= 0 -> s
         [] n = 4 -> s \o <<"    ">>
         [] n = 34 -> s \o <<"                                  ">>
         [] OTHER -> s \o [i \in 1..n |-> " "]

\* --------------------------------------------------------- result formatting
format_dns_result(subdomain, record_type, value) ==
    << <<"subdomain", PyStr(subdomain)>>,
       <<"type", PyStr(record_type)>>,
       <<"value", PyStr(value)>>,
       <<"raw", PyStr(<<"[">> \o Ljust(record_type, 5) \o <<"] ">>
                      \o Ljust(subdomain, 40) \o <<" -> ">> \o value)>> >>

format_web_result(url, status_code, content_length, redirect_url) ==
    LET base == <<"[">> \o IntStr(status_code) \o <<"] ">> \o url
                 \o <<" (Length: ">> \o IntStr(content_length) \o <<")">>
        raw == IF ~IsNone(redirect_url) /\ The(redirect_url) # url
               THEN base \o <<" -> ">> \o The(redirect_url) ELSE base
    IN << <<"url", PyStr(url)>>,
          <<"status", PyInt(status_code)>>,
          <<"length", PyInt(content_length)>>,
          <<"redirect", IF IsNone(redirect_url) THEN PyNone ELSE PyStr(The(redirect_url))>>,
          <<"raw", PyStr(raw)>> >>

format_vhost_result(vhost, status_code, content_length) ==
    << <<"vhost", PyStr(vhost)>>,
       <<"status", PyInt(status_code)>>,
       <<"length", PyInt(content_length)>>,
       <<"raw", PyStr(<<"[">> \o IntStr(status_code) \o <<"] ">> \o vhost
                      \o <<" (Length: ">> \o IntStr(content_length) \o <<")">>)>> >>

\* ---------------------------------------------------------------- ScanState
\* datetime.now().isoformat() at logical time n (time advances per launch)
Isoformat(n) == <<"T", <<"0", "1", "2", "3", "4", "5", "6">>[n + 1]>>

ScanStateFields ==
    <<"module", "target", "wordlist", "completed_items", "found_results",
      "started_at", "last_updated", "total_items">>
RequiredFields == {"module", "target", "wordlist"}

\* ScanState(module=..., target=..., wordlist=..., total_items=...) at time n
NewScanState(module, target, wordlist, total_items, n) ==
    [module |-> module, target |-> target, wordlist |-> wordlist,
     completed_items |-> <<>>, found_results |-> <<>>,
     started_at |-> Isoformat(n), last_updated |-> Isoformat(n),
     total_items |-> total_items]

\* get_remaining_items skipping as many leading items as were completed (mutant)
get_remaining_items_by_count(state, all_items) ==
    SubSeq(all_items, Len(state.completed_items) + 1, Len(all_items))

\* get_remaining_items returning the uncompleted items last first (mutant)
get_remaining_items_reversed(state, all_items) ==
    LET completed_set == Range(state.completed_items)
        kept == SelectSeq(all_items, LAMBDA item : item \notin completed_set)
    IN [i \in 1..Len(kept) |-> kept[Len(kept) + 1 - i]]

get_remaining_items(state, all_items) ==
    LET completed_set == Range(state.completed_items)
    IN SelectSeq(all_items, LAMBDA item : item \notin completed_set)

\* mark_completed without the membership test (mutant)
mark_completed_always_appends(state, item) ==
    [state EXCEPT !.completed_items = Append(@, item)]

mark_completed(state, item) ==
    IF item \notin Range(state.completed_items)
    THEN [state EXCEPT !.completed_items = Append(@, item)]
    ELSE state

\* add_result keeping no result in the state (mutant)
add_result_dropped(state, result) == state

add_result(state, result) ==
    [state EXCEPT !.found_results = Append(@, result)]

\* Dumps writing completed_items in reverse order (mutant)
DumpsReversed(state, completed, found) ==
    <<"object",
      << <<"module", <<"string", state.module>> >>,
         <<"target", <<"string", state.target>> >>,
         <<"wordlist", <<"string", state.wordlist>> >>,
         <<"completed_items",
           <<"array", [i \in 1..Len(completed) |->
                          <<"string", completed[Len(completed) + 1 - i]>>]>> >>,
         <<"found_results",
           <<"array", [i \in 1..Len(found) |-> JsonObjectOfDict(found[i])]>> >>,
         <<"started_at", <<"string", state.started_at>> >>,
         <<"last_updated", <<"string", state.last_updated>> >>,
         <<"total_items", <<"number", state.total_items>> >> >> >>

\* json.dump(asdict(self)): the JSON document save writes.  completed is the
\* copy asdict took of completed_items, found the copy it took of found_results.
Dumps(state, completed, found) ==
    <<"object",
      << <<"module", <<"string", state.module>> >>,
         <<"target", <<"string", state.target>> >>,
         <<"wordlist", <<"string", state.wordlist>> >>,
         <<"completed_items",
           <<"array", [i \in 1..Len(completed) |-> <<"string", completed[i]>>]>> >>,
         <<"found_results",
           <<"array", [i \in 1..Len(found) |-> JsonObjectOfDict(found[i])]>> >>,
         <<"started_at", <<"string", state.started_at>> >>,
         <<"last_updated", <<"string", state.last_updated>> >>,
         <<"total_items", <<"number", state.total_items>> >> >> >>

\* cls(**data) for data = the parsed document: TypeError unless data is a
\* mapping whose keys are field names and include the fields with no default
AcceptedByInit(j) ==
    /\ j[1] = "object"
    /\ Keys(j[2]) \subseteq Range(ScanStateFields)
    /\ RequiredFields \subseteq Keys(j[2])

\* the JSON type the annotation of field k names
FieldType(k) ==
    CASE k \in {"completed_items", "found_results"} -> "array"
      [] k = "total_items" -> "number"
      [] OTHER -> "string"

\* the field k of cls(**data); a field the document omits takes its default.
\* The dataclass checks no type: a value of another type than the annotation
\* names is stored as it is (here: as the tagged Python value).
FieldOfJson(j, k, n) ==
    IF HasKey(j[2], k)
    THEN LET v == Item(j[2], k)
         IN CASE v[1] # FieldType(k) -> PyOfJson(v)
              [] v[1] = "array" /\ k = "found_results" ->
                     [i \in 1..Len(v[2]) |->
                         IF v[2][i][1] = "object" THEN DictOfJsonObject(v[2][i])
                         ELSE PyOfJson(v[2][i])]
              [] v[1] = "array" /\ k # "found_results" ->
                     [i \in 1..Len(v[2]) |->
                         IF v[2][i][1] = "string" THEN v[2][i][2]
                         ELSE PyOfJson(v[2][i])]
              [] OTHER -> v[2]
    ELSE CASE k \in {"completed_items", "found_results"} -> <<>>
           [] k \in {"started_at", "last_updated"} -> Isoformat(n)
           [] OTHER -> 0

Loads(j, n) ==
    [module |-> FieldOfJson(j, "module", n),
     target |-> FieldOfJson(j, "target", n),
     wordlist |-> FieldOfJson(j, "wordlist", n),
     completed_items |-> FieldOfJson(j, "completed_items", n),
     found_results |-> FieldOfJson(j, "found_results", n),
     started_at |-> FieldOfJson(j, "started_at", n),
     last_updated |-> FieldOfJson(j, "last_updated", n),
     total_items |-> FieldOfJson(j, "total_items", n)]

\* A file is <<"absent">>, <<"undecodable">> (bytes that are not UTF-8),
\* <<"malformed">> (text that is not JSON) or <<"json", document>>.
Absent == <<"absent">>
Undecodable == <<"undecodable">>
Malformed == <<"malformed">>
JsonFile(j) == <<"json", j>>

\* ScanState.load: [raised, state]; raised is an exception load does not catch
load(file, n) ==
    CASE file[1] = "absent" -> [raised |-> FALSE, state |-> None]
      [] file[1] = "undecodable" -> [raised |-> TRUE, state |-> None]
      [] file[1] = "malformed" -> [raised |-> FALSE, state |-> None]
      [] file[1] = "json" ->
            IF AcceptedByInit(file[2])
            THEN [raised |-> FALSE, state |-> Some(Loads(file[2], n))]
            ELSE [raised |-> FALSE, state |-> None]

\* ---------------------------------------------------------------- ScanConfig
\* ScanConfig.get_state_filepath (cli.build_config never sets state_file)
get_state_filepath(config) ==
    IF ~IsNone(config.state_file) THEN The(config.state_file)
    ELSE LET safe_target ==
                 Replace(Replace(Replace(config.target, <<":", "/", "/">>, <<"_">>),
                                 <<"/">>, <<"_">>), <<".">>, <<"_">>)
         IN <<".hawkshot_state_">> \o safe_target \o <<".json">>

\* load_wordlist of the file a path names
load_wordlist(path) == [i \in 1..Len(path) |-> <<path[i]>>]

\* ------------------------------------------------------------------- export
\* item.get('raw', str(item)); every result the modules build has a raw
RawOf(item) == Item(item, "raw")[2]

\* sorted() keeping one item per rendering
SortedUnique(items) ==
    LET raws == {RawOf(items[i]) : i \in 1..Len(items)}
        rank(r) == Cardinality({q \in raws : StrLess(q, r)}) + 1
        first(r) == CHOOSE i \in 1..Len(items) : RawOf(items[i]) = r
                       /\ \A j \in 1..(i - 1) : RawOf(items[j]) # r
    IN [k \in 1..Cardinality(raws) |->
           items[first(CHOOSE r \in raws : rank(r) = k)]]

\* sorted(results, key=lambda x: x.get('raw', str(x))): ascending by the
\* rendering, items of equal rendering in their order in results (stable)
RECURSIVE Sorted(_)
Sorted(items) ==
    IF items = <<>> THEN <<>>
    ELSE LET n == Len(items)
             x == items[n]
             before == Sorted(SubSeq(items, 1, n - 1))
             \* x goes after every item whose rendering is not greater
             keep == Cardinality({i \in 1..Len(before) :
                                    ~StrLess(RawOf(x), RawOf(before[i]))})
         IN SubSeq(before, 1, keep) \o <<x>> \o SubSeq(before, keep + 1, Len(before))

\* str(value) of a metadata value
StrOf(v) ==
    CASE v[1] = "str" -> v[2]
      [] v[1] = "int" -> IntStr(v[2])
      [] v[1] = "list" ->
            <<"[">> \o Concat([i \in 1..Len(v[2]) |->
                                  (IF i > 1 THEN <<",", " ">> ELSE <<>>)
                                  \o <<"'">> \o v[2][i] \o <<"'">>])
            \o <<"]">>

\* json.dump of a metadata value
JsonOfValue(v) ==
    IF v[1] = "list"
    THEN <<"array", [i \in 1..Len(v[2]) |-> <<"string", v[2][i]>>]>>
    ELSE JsonOfPy(v)

\* the metadata dict each module passes to save_results
Metadata(cfg) ==
    CASE cfg.module = "dns" ->
            << <<"module", PyStr(<<"dns_enum">>)>>, <<"target", PyStr(cfg.target)>>,
               <<"wordlist", PyStr(cfg.wordlist)>>, <<"threads", PyInt(cfg.threads)>>,
               <<"record_types", <<"list", cfg.record_types>> >> >>
      [] cfg.module = "dir" ->
            << <<"module", PyStr(<<"dir_scan">>)>>, <<"target", PyStr(cfg.target)>>,
               <<"wordlist", PyStr(cfg.wordlist)>>, <<"threads", PyInt(cfg.threads)>>,
               <<"user_agent", PyStr(<<"Mozilla/5.0">>)>> >>
      [] cfg.module = "vhost" ->
            << <<"module", PyStr(<<"vhost_enum">>)>>, <<"target", PyStr(cfg.target)>>,
               <<"base_host", PyStr(cfg.base_host)>>,
               <<"wordlist", PyStr(cfg.wordlist)>>, <<"threads", PyInt(cfg.threads)>> >>

\* TextLines writing every rendering once (mutant)
TextLinesUnique(results, metadata, n) ==
    << <<"#", " ", "HAWKSHOT Scan Results">> >>
    \o [i \in 1..Len(SortedUnique(results)) |-> RawOf(SortedUnique(results)[i])]

\* the lines save_results writes in text format at time n
TextLines(results, metadata, n) ==
    << <<"#", " ", "HAWKSHOT Scan Results">>,
       <<"#", " ", "Date: ">> \o Isoformat(n) >>
    \o [i \in 1..Len(metadata) |->
           <<"#", " ", metadata[i][1], ":", " ">> \o StrOf(metadata[i][2])]
    \o << <<"#", " ", "Total results: ">> \o IntStr(Len(results)),
          <<"#", "============================================================">>,
          <<>> >>
    \o [i \in 1..Len(results) |-> RawOf(Sorted(results)[i])]

\* the document save_results writes in JSON format at time n
JsonDocument(results, metadata, n) ==
    <<"object",
      << <<"metadata",
           <<"object",
             << <<"tool", <<"string", <<"hawkshot">> >> >>,
                <<"version", <<"string", <<"4.0.0">> >> >>,
                <<"timestamp", <<"string", Isoformat(n)>> >> >>
             \o [i \in 1..Len(metadata) |->
                    <<metadata[i][1], JsonOfValue(metadata[i][2])>>] >> >>,
         <<"results",
           <<"array", [i \in 1..Len(results) |-> JsonObjectOfDict(results[i])]>> >>,
         <<"total_count", <<"number", Len(results)>> >> >> >>

\* the outcomes of writing the output file: written, or the exception raised
WriteFaults == {None, Some("PermissionError"), Some("OSError")}

\* save_results returning True whatever the write did (mutant)
save_results_always_true(results, metadata, json_format, n, fault) ==
    IF ~IsNone(fault)
    THEN [ok |-> TRUE, file |-> <<"incomplete">>]
    ELSE IF json_format
    THEN [ok |-> TRUE, file |-> <<"json", JsonDocument(results, metadata, n)>>]
    ELSE [ok |-> TRUE, file |-> <<"text", TextLines(results, metadata, n)>>]

\* save_results(output_file, results, metadata, json_format) at time n, the
\* write of the file ending in fault: the value returned and the file written
\* (a write that fails leaves no complete file)
save_results(results, metadata, json_format, n, fault) ==
    IF ~IsNone(fault)
    THEN [ok |-> FALSE, file |-> <<"incomplete">>]
    ELSE IF json_format
    THEN [ok |-> TRUE, file |-> <<"json", JsonDocument(results, metadata, n)>>]
    ELSE [ok |-> TRUE, file |-> <<"text", TextLines(results, metadata, n)>>]

\* ------------------------------------------------------------------- probes
Abs(x) == IF x < 0 THEN -x ELSE x

\* Python truthiness of an Optional[List]: None and [] are false
Truthy(opt_list) == ~IsNone(opt_list) /\ Len(The(opt_list)) > 0

\* DirMatch with the filter deciding alone when one is given (mutant)
DirMatchFilterAlone(status_code, status_codes) ==
    IF Truthy(status_codes)
    THEN status_code \in Range(The(status_codes))
    ELSE status_code # 404

\* dir_worker's decision for a response: the status filter, then the 404 test
DirMatch(status_code, status_codes) ==
    IF Truthy(status_codes) /\ status_code \notin Range(The(status_codes))
    THEN FALSE
    ELSE status_code # 404

\* VHostIsDifferent with >= in place of > (mutant)
VHostIsDifferentAtLeast(status_code, content_length, baseline_status, baseline_length) ==
    \/ status_code # baseline_status
    \/ 10 * Abs(content_length - baseline_length) >= baseline_length

\* vhost_worker's decision.  abs(d) > baseline_length * 0.1 is computed in
\* floating point; for integers d, b >= 0 it is true exactly when 10*d > b
\* (0.1 rounds up, and b * 0.1 never rounds below b/10).
VHostIsDifferent(status_code, content_length, baseline_status, baseline_length) ==
    \/ status_code # baseline_status
    \/ 10 * Abs(content_length - baseline_length) > baseline_length

VHostMatch(status_code, content_length, baseline_status, baseline_length) ==
    /\ VHostIsDifferent(status_code, content_length, baseline_status, baseline_length)
    /\ status_code # 404

\* The classes an exception is an instance of.  "Exception" is an exception
\* of no library class: one raised inside the try block by something other
\* than the library call (logger.result's print, for one).
Bases(exc) ==
    CASE exc = "NXDOMAIN" -> {"NXDOMAIN", "DNSException", "Exception"}
      [] exc = "NoAnswer" -> {"NoAnswer", "DNSException", "Exception"}
      [] exc = "NoNameservers" -> {"NoNameservers", "DNSException", "Exception"}
      [] exc = "DNSTimeout" -> {"DNSTimeout", "DNSException", "Exception"}
      [] exc = "DNSException" -> {"DNSException", "Exception"}
      [] exc = "Timeout" -> {"Timeout", "RequestException", "Exception"}
      [] exc = "ConnectionError" -> {"ConnectionError", "RequestException", "Exception"}
      [] exc = "SSLError" ->
            {"SSLError", "ConnectionError", "RequestException", "Exception"}
      [] exc = "TooManyRedirects" ->
            {"TooManyRedirects", "RequestException", "Exception"}
      [] exc = "RequestException" -> {"RequestException", "Exception"}
      [] exc = "Exception" -> {"Exception"}

\* the except clauses of each worker's try block
DnsHandlers ==
    {"NXDOMAIN", "NoAnswer", "DNSTimeout", "NoNameservers", "DNSException", "Exception"}
DirHandlers ==
    {"Timeout", "ConnectionError", "SSLError", "TooManyRedirects", "RequestException"}
VHostHandlers == {"Timeout", "ConnectionError", "RequestException"}
Handlers(module) ==
    CASE module = "dns" -> DnsHandlers
      [] module = "dir" -> DirHandlers
      [] module = "vhost" -> VHostHandlers

\* try ... except: the outcome exc (None or an exception) leaves the try
\* statement without propagating
Handled(exc, handlers) == IsNone(exc) \/ Bases(The(exc)) \cap handlers # {}

\* The network of the session: what the servers answer for each candidate.
\* resolver.resolve(full_domain, record_type): the answers, or the exception
Resolve(full_domain, record_type) ==
    CASE Head(full_domain) = "a" ->
            IF record_type = <<"A">>
            THEN [exc |-> None, answers |-> << <<"10.0.0.5">>, <<"10.0.0.6">> >>]
            ELSE [exc |-> Some("NoAnswer"), answers |-> <<>>]
      [] Head(full_domain) = "b" -> [exc |-> Some("NXDOMAIN"), answers |-> <<>>]
      [] OTHER ->
            IF record_type = <<"A">>
            THEN [exc |-> Some("Exception"), answers |-> <<>>]
            ELSE [exc |-> None, answers |-> << <<"::1">> >>]

\* session.get(full_url) of the dir module, up to the end of the try block
HttpGetPath(full_url, path) ==
    CASE Head(path) = "a" ->
            [exc |-> None, status_code |-> 200, length |-> 120, url |-> full_url]
      [] Head(path) = "b" ->
            [exc |-> None, status_code |-> 404, length |-> 0, url |-> full_url]
      [] OTHER ->
            [exc |-> Some("Exception"), status_code |-> 0, length |-> 0, url |-> full_url]

\* session.get(base_url, headers={'Host': vhost}) of the vhost module, up to
\* the end of the try block
HttpGetVHost(vhost) ==
    CASE Head(vhost) = "a" -> [exc |-> None, status_code |-> 200, length |-> 1200]
      [] Head(vhost) = "b" -> [exc |-> None, status_code |-> 200, length |-> 1000]
      [] OTHER -> [exc |-> Some("Exception"), status_code |-> 0, length |-> 0]

\* get_baseline_response: (status_code, len(content)) of the plain request
Baseline == <<200, 1000>>

\* DnsRecords giving up on the candidate at the first record type that fails
\* (mutant)
DnsRecordsUntilFailure(full_domain, record_types, resolved) ==
    LET ok(k) == \A j \in 1..k : IsNone(resolved[j].exc)
    IN Concat([k \in 1..Len(record_types) |->
                  IF ok(k)
                  THEN [i \in 1..Len(resolved[k].answers) |->
                           format_dns_result(full_domain, record_types[k],
                                             resolved[k].answers[i])]
                  ELSE <<>>])

\* what "for record_type in record_types" appends for a candidate, resolved[k]
\* being the outcome of resolver.resolve(full_domain, record_types[k])
DnsRecords(full_domain, record_types, resolved) ==
    Concat([k \in 1..Len(record_types) |->
               IF IsNone(resolved[k].exc)
               THEN [i \in 1..Len(resolved[k].answers) |->
                        format_dns_result(full_domain, record_types[k],
                                          resolved[k].answers[i])]
               ELSE <<>>])

\* the results one pass of dns_worker's loop body appends for a candidate
DnsProbe(config, subdomain) ==
    LET full_domain == subdomain \o <<".">> \o config.target
    IN DnsRecords(full_domain, config.record_types,
                  [k \in 1..Len(config.record_types) |->
                      Resolve(full_domain, config.record_types[k])])

\* the exception that ends the try block of the worker's pass for a
\* candidate without a handler, or None when the pass goes on
Escapes(cfg, candidate) ==
    LET outcomes ==
            CASE cfg.module = "dns" ->
                     [k \in 1..Len(cfg.record_types) |->
                         Resolve(candidate \o <<".">> \o cfg.target,
                                 cfg.record_types[k]).exc]
              [] cfg.module = "dir" ->
                     <<HttpGetPath(cfg.target \o <<"/">> \o candidate, candidate).exc>>
              [] cfg.module = "vhost" ->
                     <<HttpGetVHost(candidate \o <<".">> \o cfg.base_host).exc>>
        escaping == SelectSeq(outcomes, LAMBDA e : ~Handled(e, Handlers(cfg.module)))
    IN IF escaping = <<>> THEN None ELSE Head(escaping)

\* what dir_worker appends for the outcome of session.get(full_url)
DirRecord(full_url, response, status_codes) ==
    LET final_url == IF response.url # full_url THEN Some(response.url) ELSE None
    IN IF IsNone(response.exc) /\ DirMatch(response.status_code, status_codes)
       THEN <<format_web_result(full_url, response.status_code, response.length, final_url)>>
       ELSE <<>>

\* the results one pass of dir_worker's loop body appends for a candidate
DirProbe(config, path) ==
    LET full_url == config.target \o <<"/">> \o path
    IN DirRecord(full_url, HttpGetPath(full_url, path), config.status_codes)

\* what vhost_worker appends for the outcome of session.get(base_url, Host: vhost)
VHostRecord(vhost, response, baseline) ==
    IF IsNone(response.exc)
       /\ VHostMatch(response.status_code, response.length, baseline[1], baseline[2])
    THEN <<format_vhost_result(vhost, response.status_code, response.length)>>
    ELSE <<>>

\* the results one pass of vhost_worker's loop body appends for a candidate
VHostProbe(config, vhost_prefix) ==
    LET vhost == vhost_prefix \o <<".">> \o config.base_host
    IN VHostRecord(vhost, HttpGetVHost(vhost), Baseline)

\* web_dir.expand_paths_with_extensions
\* expand_paths_with_extensions leaving out the original path (mutant)
expand_paths_without_original(paths, extensions) ==
    IF Len(extensions) = 0 THEN paths
    ELSE Concat([i \in 1..Len(paths) |->
                    [k \in 1..Len(extensions) |-> paths[i] \o extensions[k]]])

expand_paths_with_extensions(paths, extensions) ==
    IF Len(extensions) = 0 THEN paths
    ELSE Concat([i \in 1..Len(paths) |->
                    <<paths[i]>> \o [k \in 1..Len(extensions) |-> paths[i] \o extensions[k]]])

\* the candidate sequence of a run: the wordlist, expanded in the dir module
Candidates(cfg) ==
    IF cfg.module = "dir" /\ Truthy(cfg.extensions)
    THEN expand_paths_with_extensions(load_wordlist(cfg.wordlist), The(cfg.extensions))
    ELSE load_wordlist(cfg.wordlist)

Probe(cfg, candidate) ==
    CASE cfg.module = "dns" -> DnsProbe(cfg, candidate)
      [] cfg.module = "dir" -> DirProbe(cfg, candidate)
      [] cfg.module = "vhost" -> VHostProbe(cfg, candidate)

\* -------------------------------------------------------------- ProgressBar
\* int((current / total) * 100) in double arithmetic: the floor of the exact
\* quotient, except where the rounded product falls just short of the integer
\* it should be (29/50: 0.58 * 100 = 57.99999999999999).  FloatShort lists
\* every such pair with total <= MaxTotal.
MaxTotal == 150
FloatShort == {<<29, 50>>, <<29, 100>>, <<57, 100>>, <<58, 100>>, <<87, 150>>}
Percent(current, total) ==
    IF <<current, total>> \in FloatShort
    THEN (current * 100) \div total - 1
    ELSE (current * 100) \div total

\* ProgressBar.width, and int(self.width * self.current / self.total)
Width == 40
Filled(p) == (Width * p.current) \div p.total

\* Written without the test on the last rendered percentage (mutant)
WrittenAlways(p) ==
    IF p.total = 0 THEN <<>>
    ELSE << [percent |-> Percent(p.current, p.total), filled |-> Filled(p),
             current |-> p.current, total |-> p.total] >>

\* what ProgressBar._render writes to stdout for the bar p: nothing, or the
\* line "\r{prefix}: [{bar}] {percent}% ({current}/{total})"
Written(p) ==
    IF p.total = 0 THEN <<>>
    ELSE IF Percent(p.current, p.total) = p.last_percent THEN <<>>
    ELSE << [percent |-> Percent(p.current, p.total), filled |-> Filled(p),
             current |-> p.current, total |-> p.total] >>

NewProgressBar(total) == [total |-> total, current |-> 0, last_percent |-> -1]

\* ProgressBar._render: only last_percent is state
render(p) ==
    IF p.total = 0 THEN p
    ELSE IF Percent(p.current, p.total) = p.last_percent THEN p
    ELSE [p EXCEPT !.last_percent = Percent(p.current, p.total)]

\* update whose increment is lost (mutant)
update_lost(p) == render(p)

update(p) == render([p EXCEPT !.current = @ + 1])

finish(p) == render([p EXCEPT !.current = p.total])

\* ------------------------------------------------------------------- state
VARIABLES
    run,          \* launches so far; also the clock datetime.now() reads
    pc,           \* where the main thread of the current process is
    config,       \* the ScanConfig of the current process
    disk,         \* checkpoint path -> file
    state,        \* the run's ScanState: None or Some(ScanState)
    all_items,    \* all_subdomains / paths / vhosts
    scan_items,   \* subdomains / scan_paths / scan_vhosts
    work_queue,   \* the items of queue.Queue not yet taken
    unfinished,   \* queue.Queue.unfinished_tasks
    results,      \* the shared result list
    progress,     \* the ProgressBar
    started,      \* worker threads started so far
    wpc,          \* worker -> position in its loop
    witem,        \* worker -> the candidate it took
    wpending,     \* worker -> results of its probe not yet appended
    snap,         \* save: asdict's copy of completed_items
    ghost,        \* history of the run, read by properties only
    clean,        \* history: path -> the checkpoint there came from one wordlist
    probe,        \* input and output of a probe decision (pure-function checks)
    log,          \* the error, warning and export messages the process logged
    export        \* what the run's call of save_results returned and wrote

vars == <<run, pc, config, disk, state, all_items, scan_items, work_queue,
          unfinished, results, progress, started, wpc, witem, wpending, snap,
          ghost, clean, probe, log, export>>

Workers == 1..MaxThreads

Configs ==
    {c \in
        {[module |-> mt[1], target |-> mt[2], wordlist |-> w, threads |-> t,
          resume |-> r, state_file |-> None,
          record_types |-> << <<"A">>, <<"AAAA">> >>,
          status_codes |-> None, extensions |-> None, base_host |-> b] :
            mt \in ModuleTargets, w \in WordlistPaths, t \in 1..MaxThreads,
            r \in BOOLEAN, b \in BaseHosts} :
        c.base_host = <<>> => c.module = "vhost"}

Paths == {get_state_filepath(c) : c \in Configs}

NoConfig == CHOOSE c \in Configs : TRUE
\* honoured, K, pure: the checkpoint the run resumed from; interrupted: a
\* KeyboardInterrupt was raised; enqueued, probed, loaded: the queue was
\* filled, a probe was issued, the checkpoint file was read; baseline: what
\* get_baseline_response returned to run_vhost_enum
NoGhost == [honoured |-> FALSE, K |-> 0, pure |-> FALSE, interrupted |-> FALSE,
            enqueued |-> FALSE, probed |-> FALSE, loaded |-> FALSE,
            baseline |-> None]
\* save_results was not called
NoExport == [ok |-> FALSE, file |-> <<"none">>]
NoResponse == [exc |-> None, status_code |-> 0, length |-> 0, url |-> <<>>]
NoProbe == [module |-> "none", response |-> NoResponse, status_codes |-> None,
            baseline |-> <<0, 0>>, out |-> None]

Terminal == {"returned", "exit_interrupt", "exit_error"}
Alive == pc \notin Terminal \cup {"idle"}

path == get_state_filepath(config)

\* the per-process variables of a process that has not started
Fresh ==
    /\ state = None
    /\ all_items = <<>>
    /\ scan_items = <<>>
    /\ work_queue = <<>>
    /\ unfinished = 0
    /\ results = <<>>
    /\ progress = NewProgressBar(0)
    /\ started = 0
    /\ wpc = [w \in Workers |-> "none"]
    /\ witem = [w \in Workers |-> <<>>]
    /\ wpending = [w \in Workers |-> <<>>]
    /\ snap = <<>>
    /\ ghost = NoGhost
    /\ log = <<>>
    /\ export = NoExport

Init ==
    /\ run = 0
    /\ pc = "idle"
    /\ config = NoConfig
    /\ \E f \in {Absent, Undecodable} : disk = [p \in Paths |-> f]
    /\ clean = [p \in Paths |-> FALSE]
    /\ probe = NoProbe
    /\ Fresh

\* ------------------------------------------------------- the main thread
\* what cli.main logs when the module call ends with outcome o
CliLog(o) ==
    CASE o = "returned" -> <<>>
      [] o = "exit_interrupt" -> << <<"warning", "Program interrupted by user.">> >>
      [] o = "exit_error" -> << <<"error", "Unexpected error">> >>

\* The process ends with outcome o: its threads and its queue are gone.  What
\* the run returned or raised with (results, state, progress) is kept for the
\* properties to read until the next launch.
ProcessEnds(o, messages) ==
    /\ pc' = o
    /\ log' = log \o messages \o CliLog(o)
    /\ work_queue' = <<>>
    /\ unfinished' = 0
    /\ wpc' = [w \in Workers |-> "none"]
    /\ witem' = [w \in Workers |-> <<>>]
    /\ wpending' = [w \in Workers |-> <<>>]

\* ExitStatus: the status the process ended with
ExitStatus ==
    CASE pc = "returned" -> 0
      [] pc = "exit_interrupt" -> 0
      [] pc = "exit_error" -> 1

\* the arguments in which two command lines differ
Changed(c, d) ==
    {k \in {"module", "target", "wordlist", "threads", "resume", "base_host"} :
        c[k] # d[k]}

\* cli.main: parse the arguments, build the config, call the module.  A
\* session repeats its command line, changing at most one argument per launch;
\* its later launches ask for resume (a run without --resume neither reads nor
\* writes the checkpoint file, so it goes as a first launch does).
Launch(c) ==
    /\ pc \in Terminal \cup {"idle"}
    /\ run < MaxRuns
    /\ run > 0 => Cardinality(Changed(c, config)) <= 1 /\ c.resume
    /\ run' = run + 1
    /\ pc' = "load_wordlist"
    /\ config' = c
    /\ state' = None
    /\ all_items' = <<>>
    /\ scan_items' = <<>>
    /\ work_queue' = <<>>
    /\ unfinished' = 0
    /\ results' = <<>>
    /\ progress' = NewProgressBar(0)
    /\ started' = 0
    /\ wpc' = [w \in Workers |-> "none"]
    /\ witem' = [w \in Workers |-> <<>>]
    /\ wpending' = [w \in Workers |-> <<>>]
    /\ snap' = <<>>
    /\ ghost' = NoGhost
    /\ log' = <<>>
    /\ export' = NoExport
    /\ UNCHANGED <<disk, clean, probe>>

\* "if not config.base_host" of run_vhost_enum
HasBaseHost == config.module = "vhost" => config.base_host # <<>>

\* run_vhost_enum without a base host: logger.error and return []
BaseHostMissing ==
    /\ pc = "load_wordlist"
    /\ ~HasBaseHost
    /\ ProcessEnds("returned", << <<"error", "VHost enumeration requires --host">> >>)
    /\ UNCHANGED <<run, config, disk, state, all_items, scan_items, results,
                   progress, started, snap, ghost, clean, probe, export>>

\* LoadWordlistFails logging the error and going on with the empty list (mutant)
LoadWordlistFailsGoesOn ==
    /\ pc = "load_wordlist"
    /\ HasBaseHost
    /\ pc' = "resume"
    /\ \E message \in {"Wordlist not found", "Permission denied reading"} :
          log' = log \o << <<"error", message>> >>
    /\ UNCHANGED <<run, config, disk, state, all_items, scan_items, work_queue,
                   unfinished, results, progress, started, wpc, witem, wpending,
                   snap, ghost, clean, probe, export>>

\* load_wordlist raises FileNotFoundError or PermissionError: return []
LoadWordlistFails ==
    /\ pc = "load_wordlist"
    /\ HasBaseHost
    /\ \E message \in {"Wordlist not found", "Permission denied reading"} :
          ProcessEnds("returned", << <<"error", message>> >>)
    /\ UNCHANGED <<run, config, disk, state, all_items, scan_items, results,
                   progress, started, snap, ghost, clean, probe, export>>

\* load_wordlist succeeds; run_dir_scan expands the paths with the extensions
LoadWordlist ==
    /\ pc = "load_wordlist"
    /\ HasBaseHost
    /\ all_items' = Candidates(config)
    /\ pc' = IF config.module = "vhost" THEN "baseline" ELSE "resume"
    /\ UNCHANGED <<run, config, disk, state, scan_items, work_queue,
                   unfinished, results, progress, started, wpc, witem, wpending,
                   snap, ghost, clean, probe,
                   log, export>>

\* BaselineFails logging the error and going on to the scan (mutant)
BaselineFailsGoesOn ==
    /\ pc = "baseline"
    /\ pc' = "resume"
    /\ log' = Append(log, <<"error", "Could not connect to target">>)
    /\ UNCHANGED <<run, config, disk, state, all_items, scan_items, work_queue,
                   unfinished, results, progress, started, wpc, witem, wpending,
                   snap, ghost, clean, probe, export>>

\* run_vhost_enum: get_baseline_response returned None: return []
BaselineFails ==
    /\ pc = "baseline"
    /\ ProcessEnds("returned", << <<"error", "Could not connect to target">> >>)
    /\ UNCHANGED <<run, config, disk, state, all_items, scan_items, results,
                   progress, started, snap, ghost, clean, probe, export>>

\* run_vhost_enum: get_baseline_response returned (status_code, length)
BaselineOk ==
    /\ pc = "baseline"
    /\ pc' = "resume"
    /\ ghost' = [ghost EXCEPT !.baseline = Some(Baseline)]
    /\ UNCHANGED <<run, config, disk, state, all_items, scan_items, work_queue,
                   unfinished, results, progress, started, wpc, witem, wpending,
                   snap, clean, probe, log, export>>

\* "if state and state.module == '...' and state.target == config.target"
\* for l the outcome of ScanState.load
Honoured(l, cfg) ==
    /\ ~IsNone(l.state)
    /\ The(l.state).module = <<cfg.module>>
    /\ The(l.state).target = cfg.target

\* "Check for resume state": state and the items to scan
ResolveResume ==
    /\ pc = "resume"
    /\ LET l == load(disk[path], run)
           honoured == Honoured(l, config)
       IN IF ~config.resume
          THEN /\ state' = None
               /\ scan_items' = all_items
               /\ pc' = "enqueue"
               /\ UNCHANGED <<ghost, log>>
          ELSE IF l.raised
          THEN /\ pc' = "exit_error"
               /\ ghost' = [ghost EXCEPT !.loaded = TRUE]
               /\ log' = log \o CliLog("exit_error")
               /\ UNCHANGED <<state, scan_items>>
          ELSE IF honoured
          THEN /\ state' = l.state
               /\ scan_items' = get_remaining_items(The(l.state), all_items)
               /\ ghost' = [ghost EXCEPT
                              !.loaded = TRUE,
                              !.honoured = TRUE,
                              !.K = Len(The(l.state).completed_items),
                              !.pure = clean[path]
                                       /\ The(l.state).wordlist = config.wordlist]
               /\ pc' = "enqueue"
               /\ log' = log
          ELSE /\ state' = Some(NewScanState(<<config.module>>, config.target,
                                             config.wordlist, Len(all_items), run))
               /\ scan_items' = all_items
               /\ ghost' = [ghost EXCEPT !.loaded = TRUE, !.pure = TRUE]
               /\ pc' = "enqueue"
               /\ log' = log
    /\ UNCHANGED <<run, config, disk, all_items, work_queue, unfinished, results,
                   progress, started, wpc, witem, wpending, snap, clean, probe,
                   export>>

\* Enqueue starting the result list empty also when a state was restored
\* (mutant)
EnqueueWithEmptyResults ==
    /\ pc = "enqueue"
    /\ work_queue' = scan_items
    /\ unfinished' = Len(scan_items)
    /\ results' = <<>>
    /\ progress' = NewProgressBar(Len(scan_items))
    /\ ghost' = [ghost EXCEPT !.enqueued = TRUE]
    /\ pc' = "start"
    /\ UNCHANGED <<run, config, disk, state, all_items, scan_items, started,
                   wpc, witem, wpending, snap, clean, probe, log, export>>

\* fill the queue, copy the restored results, create the progress bar
Enqueue ==
    /\ pc = "enqueue"
    /\ work_queue' = scan_items
    /\ unfinished' = Len(scan_items)
    /\ results' = IF IsNone(state) THEN <<>> ELSE The(state).found_results
    /\ progress' = NewProgressBar(Len(scan_items))
    /\ ghost' = [ghost EXCEPT !.enqueued = TRUE]
    /\ pc' = "start"
    /\ UNCHANGED <<run, config, disk, state, all_items, scan_items, started,
                   wpc, witem, wpending, snap, clean, probe, log, export>>

\* one pass of "for _ in range(config.threads)": t.start()
StartWorker ==
    /\ pc = "start"
    /\ started < config.threads
    /\ started' = started + 1
    /\ wpc' = [wpc EXCEPT ![started + 1] = "get"]
    /\ pc' = IF started + 1 = config.threads THEN "join" ELSE "start"
    /\ UNCHANGED <<run, config, disk, state, all_items, scan_items, work_queue,
                   unfinished, results, progress, witem, wpending, snap, ghost,
                   clean, probe,
                   log, export>>

\* JoinReturns not waiting for the tasks taken to be marked done (mutant)
JoinReturnsWhenQueueEmpty ==
    /\ pc = "join"
    /\ work_queue = <<>>
    /\ pc' = "finish"
    /\ UNCHANGED <<run, config, disk, state, all_items, scan_items, work_queue,
                   unfinished, results, progress, started, wpc, witem, wpending,
                   snap, ghost, clean, probe, log, export>>

\* work_queue.join() returns: every item taken has been marked done
JoinReturns ==
    /\ pc = "join"
    /\ unfinished = 0
    /\ pc' = "finish"
    /\ UNCHANGED <<run, config, disk, state, all_items, scan_items, work_queue,
                   unfinished, results, progress, started, wpc, witem, wpending,
                   snap, ghost, clean, probe,
                   log, export>>

\* KeyboardInterrupt is raised in the main thread while it waits in join()
Interrupt ==
    /\ pc = "join"
    /\ pc' = "except"
    /\ ghost' = [ghost EXCEPT !.interrupted = TRUE]
    /\ UNCHANGED <<run, config, disk, state, all_items, scan_items, work_queue,
                   unfinished, results, progress, started, wpc, witem, wpending,
                   snap, clean, probe, log, export>>

\* except KeyboardInterrupt, no state: raise; cli.main exits with status 0
ReraiseWithoutState ==
    /\ pc = "except"
    /\ IsNone(state)
    /\ ProcessEnds("exit_interrupt", <<>>)
    /\ UNCHANGED <<run, config, disk, state, all_items, scan_items, results,
                   progress, started, snap, ghost, clean, probe, export>>

\* state.save: open(filepath, 'w') raises; the OSError replaces the interrupt
\* and cli.main exits with status 1
SaveOpenFails ==
    /\ pc = "except"
    /\ ~IsNone(state)
    /\ state' = Some([The(state) EXCEPT !.last_updated = Isoformat(run)])
    /\ ProcessEnds("exit_error", <<>>)
    /\ UNCHANGED <<run, config, disk, all_items, scan_items, results,
                   progress, started, snap, ghost, clean, probe, export>>

\* state.save: last_updated is set, the file is opened (and so emptied), and
\* asdict copies completed_items; the workers are still running
SaveBegin ==
    /\ pc = "except"
    /\ ~IsNone(state)
    /\ state' = Some([The(state) EXCEPT !.last_updated = Isoformat(run)])
    /\ disk' = [disk EXCEPT ![path] = Malformed]
    /\ snap' = The(state).completed_items
    /\ pc' = "saving"
    /\ UNCHANGED <<run, config, all_items, scan_items, work_queue,
                   unfinished, results, progress, started, wpc, witem, wpending,
                   ghost, clean, probe,
                   log, export>>

\* SaveEnd with a handler that does not re-raise: the run goes on to the
\* summary (mutant)
SaveEndThenSummary ==
    /\ pc = "saving"
    /\ disk' = [disk EXCEPT
                  ![path] = JsonFile(Dumps(The(state), snap, The(state).found_results))]
    /\ clean' = [clean EXCEPT ![path] = ghost.pure]
    /\ log' = Append(log, <<"warning", "Scan interrupted. State saved">>)
    /\ pc' = "finish"
    /\ UNCHANGED <<run, config, state, all_items, scan_items, work_queue,
                   unfinished, results, progress, started, wpc, witem, wpending,
                   snap, ghost, probe, export>>

\* state.save: asdict copies found_results, json.dump writes the document;
\* then the handler logs and re-raises, and cli.main exits with status 0
SaveEnd ==
    /\ pc = "saving"
    /\ disk' = [disk EXCEPT
                  ![path] = JsonFile(Dumps(The(state), snap, The(state).found_results))]
    /\ clean' = [clean EXCEPT ![path] = ghost.pure]
    /\ ProcessEnds("exit_interrupt",
                   << <<"warning", "Scan interrupted. State saved">> >>)
    /\ UNCHANGED <<run, config, state, all_items, scan_items, results,
                   progress, started, snap, ghost, probe, export>>

\* a second KeyboardInterrupt arrives inside state.save: the file stays
\* cut short, the interrupt propagates and cli.main exits with status 0
InterruptDuringSave ==
    /\ pc = "saving"
    /\ clean' = [clean EXCEPT ![path] = FALSE]
    /\ ProcessEnds("exit_interrupt", <<>>)
    /\ UNCHANGED <<run, config, disk, state, all_items, scan_items, results,
                   progress, started, snap, ghost, probe, export>>

\* the command lines' -o/--output and --json, and how the write of the output
\* file ends; config.output and config.json_output are read by no other step
ExportChoices ==
    {[output |-> None, json_output |-> FALSE, fault |-> None]}
    \cup {[output |-> Some(<<"o", "u", "t">>), json_output |-> j, fault |-> f] :
             j \in BOOLEAN, f \in WriteFaults}

\* progress.finish(), the summary, and "if config.output:" save_results with
\* the module's metadata, logging its outcome
Finish ==
    /\ pc = "finish"
    /\ progress' = finish(progress)
    /\ \E c \in ExportChoices :
          IF IsNone(c.output)
          THEN UNCHANGED <<export, log>>
          ELSE /\ export' = save_results(results, Metadata(config), c.json_output,
                                         run, c.fault)
               /\ log' = Append(log, IF export'.ok
                                     THEN <<"success", "Results saved">>
                                     ELSE <<"error", "Failed to save results">>)
    /\ pc' = "cleanup"
    /\ UNCHANGED <<run, config, disk, state, all_items, scan_items, work_queue,
                   unfinished, results, started, wpc, witem, wpending, snap,
                   ghost, clean, probe>>

\* Cleanup deleting the file of a run without --resume whether or not the run
\* holds a state (mutant)
CleanupWithoutState ==
    /\ pc = "cleanup"
    /\ disk' = IF /\ config.module \in {"dns", "dir"}
                  /\ ~config.resume
                  /\ disk[path] # Absent
               THEN [disk EXCEPT ![path] = Absent]
               ELSE disk
    /\ ProcessEnds("returned", <<>>)
    /\ UNCHANGED <<run, config, state, all_items, scan_items, results,
                   progress, started, snap, ghost, clean, probe, export>>

\* "Clean up state file on successful completion" (dns, dir; run_vhost_enum
\* has no such step), then return results
Cleanup ==
    /\ pc = "cleanup"
    /\ disk' = IF /\ config.module \in {"dns", "dir"}
                  /\ ~IsNone(state) /\ ~config.resume
                  /\ disk[path] # Absent
               THEN [disk EXCEPT ![path] = Absent]
               ELSE disk
    /\ ProcessEnds("returned", <<>>)
    /\ UNCHANGED <<run, config, state, all_items, scan_items, results,
                   progress, started, snap, ghost, clean, probe, export>>

\* ------------------------------------------------------- the worker threads
\* WorkerGet reading the head of the queue without removing it (mutant)
WorkerGetLeavesEntry(w) ==
    /\ Alive
    /\ wpc[w] = "get"
    /\ work_queue # <<>>
    /\ witem' = [witem EXCEPT ![w] = Head(work_queue)]
    /\ wpending' = [wpending EXCEPT ![w] = Probe(config, Head(work_queue))]
    /\ wpc' = [wpc EXCEPT ![w] =
                 CASE ~IsNone(Escapes(config, Head(work_queue))) -> "dead"
                   [] Probe(config, Head(work_queue)) = <<>> -> "mark"
                   [] OTHER -> "add"]
    /\ ghost' = [ghost EXCEPT !.probed = TRUE]
    /\ UNCHANGED <<run, pc, config, disk, state, all_items, scan_items,
                   work_queue, unfinished, results, progress, started, snap,
                   clean, probe, log, export>>

\* (daemon threads: they run while the process is alive)
\* work_queue.get(block=True, timeout=0.5) returns an item; the probe runs.
\* An exception no except clause of the try block names ends the thread: the
\* pass stops before mark_completed, progress.update and task_done.
WorkerGet(w) ==
    /\ Alive
    /\ wpc[w] = "get"
    /\ work_queue # <<>>
    /\ work_queue' = Tail(work_queue)
    /\ witem' = [witem EXCEPT ![w] = Head(work_queue)]
    /\ wpending' = [wpending EXCEPT ![w] = Probe(config, Head(work_queue))]
    /\ wpc' = [wpc EXCEPT ![w] =
                 CASE ~IsNone(Escapes(config, Head(work_queue))) -> "dead"
                   [] Probe(config, Head(work_queue)) = <<>> -> "mark"
                   [] OTHER -> "add"]
    /\ ghost' = [ghost EXCEPT !.probed = TRUE]
    /\ UNCHANGED <<run, pc, config, disk, state, all_items, scan_items,
                   unfinished, results, progress, started, snap, clean,
                   probe, log, export>>

\* the first work_queue.get raises queue.Empty: break
WorkerExit(w) ==
    /\ Alive
    /\ wpc[w] = "get"
    /\ work_queue = <<>>
    /\ wpc' = [wpc EXCEPT ![w] = "exited"]
    /\ UNCHANGED <<run, pc, config, disk, state, all_items, scan_items,
                   work_queue, unfinished, results, progress, started, witem,
                   wpending, snap, ghost, clean, probe,
                   log, export>>

\* WorkerAdd leaving the loop over the answers after the first one (mutant)
WorkerAddFirstOnly(w) ==
    /\ Alive
    /\ wpc[w] = "add"
    /\ results' = Append(results, Head(wpending[w]))
    /\ state' = IF IsNone(state) THEN state
                ELSE Some(add_result(The(state), Head(wpending[w])))
    /\ wpending' = [wpending EXCEPT ![w] = <<>>]
    /\ wpc' = [wpc EXCEPT ![w] = "mark"]
    /\ UNCHANGED <<run, pc, config, disk, all_items, scan_items, work_queue,
                   unfinished, progress, started, witem, snap, ghost, clean,
                   probe,
                   log, export>>

\* with lock: results.append(result); if state: state.add_result(result)
WorkerAdd(w) ==
    /\ Alive
    /\ wpc[w] = "add"
    /\ results' = Append(results, Head(wpending[w]))
    /\ state' = IF IsNone(state) THEN state
                ELSE Some(add_result(The(state), Head(wpending[w])))
    /\ wpending' = [wpending EXCEPT ![w] = Tail(@)]
    /\ wpc' = [wpc EXCEPT ![w] = IF Tail(wpending[w]) = <<>> THEN "mark" ELSE "add"]
    /\ UNCHANGED <<run, pc, config, disk, all_items, scan_items, work_queue,
                   unfinished, progress, started, witem, snap, ghost, clean,
                   probe,
                   log, export>>

\* WorkerMark signalling the queue before the candidate is marked: the pass
\* goes from the results to task_done and marks nothing (mutant)
WorkerMarkSkipped(w) ==
    /\ Alive
    /\ wpc[w] = "mark"
    /\ wpc' = [wpc EXCEPT ![w] = "task_done"]
    /\ UNCHANGED <<run, pc, config, disk, state, all_items, scan_items,
                   work_queue, unfinished, results, progress, started, witem,
                   wpending, snap, ghost, clean, probe, log, export>>

\* with lock: if state: state.mark_completed(item)
WorkerMark(w) ==
    /\ Alive
    /\ wpc[w] = "mark"
    /\ state' = IF IsNone(state) THEN state
                ELSE Some(mark_completed(The(state), witem[w]))
    /\ wpc' = [wpc EXCEPT ![w] = "update"]
    /\ UNCHANGED <<run, pc, config, disk, all_items, scan_items, work_queue,
                   unfinished, results, progress, started, witem, wpending, snap,
                   ghost, clean, probe,
                   log, export>>

\* progress.update(), then the delay
WorkerUpdate(w) ==
    /\ Alive
    /\ wpc[w] = "update"
    /\ progress' = update(progress)
    /\ wpc' = [wpc EXCEPT ![w] = "task_done"]
    /\ UNCHANGED <<run, pc, config, disk, state, all_items, scan_items,
                   work_queue, unfinished, results, started, witem, wpending,
                   snap, ghost, clean, probe,
                   log, export>>

\* work_queue.task_done(), and back to get; nothing is put on the queue after
\* the workers start, so a queue found empty here stays empty and the next
\* get raises queue.Empty: break
WorkerTaskDone(w) ==
    /\ Alive
    /\ wpc[w] = "task_done"
    /\ unfinished' = unfinished - 1
    /\ wpc' = [wpc EXCEPT ![w] = IF work_queue = <<>> THEN "exited" ELSE "get"]
    /\ UNCHANGED <<run, pc, config, disk, state, all_items, scan_items,
                   work_queue, results, progress, started, witem, wpending, snap,
                   ghost, clean, probe,
                   log, export>>

Worker(w) ==
    \/ WorkerGet(w)
    \/ WorkerExit(w)
    \/ WorkerAdd(w)
    \/ WorkerMark(w)
    \/ WorkerUpdate(w)
    \/ WorkerTaskDone(w)

Main ==
    \/ BaseHostMissing
    \/ LoadWordlistFails
    \/ LoadWordlist
    \/ BaselineFails
    \/ BaselineOk
    \/ ResolveResume
    \/ Enqueue
    \/ StartWorker
    \/ JoinReturns
    \/ Interrupt
    \/ ReraiseWithoutState
    \/ SaveOpenFails
    \/ SaveBegin
    \/ SaveEnd
    \/ InterruptDuringSave
    \/ Finish
    \/ Cleanup

Next ==
    \/ \E c \in Configs : Launch(c)
    \/ Main
    \/ \E w \in Workers : Worker(w)

Spec == Init /\ [][Next]_vars

\* Scheduling: the operating system runs every thread that can take a step.
\* The main thread goes on whenever it can (the arrival of a KeyboardInterrupt
\* is the only step nothing forces), join returns once no task is unfinished,
\* and each worker thread keeps running.
FairSpec ==
    /\ Spec
    /\ WF_vars(Main /\ pc # "join")
    /\ WF_vars(JoinReturns)
    /\ \A w \in Workers : WF_vars(Worker(w))

\* ------------------------------------------- the probes' decisions, alone
\* Inputs of the decisions: the response a request returned (or the exception
\* it raised), the status filter of the command line, the baseline.
ProbeStatuses == {200, 301, 403, 404, 500}
ProbeLengths == {0, 899, 900, 1000, 1100, 1101, 1200}
ProbeBaselines == {200, 404, 500} \X {0, 10, 1000}
ProbeExceptions == {None, Some("Timeout")}
\* validate_status_codes returns a list with at least one code
ProbeFilters == {None, Some(<<200, 301>>), Some(<<404>>), Some(<<403, 404>>), Some(<<200>>)}
ProbeUrl == <<"http", ":", "/", "/", "h", ".", "i", "o", "/", "a">>
ProbeFinalUrls == {ProbeUrl, ProbeUrl \o <<"/">>}
ProbeVHost == <<"a", ".", "h", ".", "i", "o">>

\* outcomes of resolver.resolve for one record type
DnsOutcomes ==
    {[exc |-> None, answers |-> << <<"10.0.0.5">> >>],
     [exc |-> None, answers |-> << <<"10.0.0.5">>, <<"10.0.0.6">> >>]}
    \cup {[exc |-> Some(e), answers |-> <<>>] : e \in DnsHandlers}
DnsOutcomesOfA ==
    {o \in DnsOutcomes : o.answers = << <<"10.0.0.5">> >>
                            \/ o.exc \in {Some("NXDOMAIN"), Some("DNSTimeout")}}

\* the DNS inputs: one candidate asked for A and AAAA with every pair of
\* outcomes, and the wordlist [www, mail, api] asked for A
DnsInputs ==
    {[module |-> "dns", candidates |-> << <<"a">> >>,
      record_types |-> << <<"A">>, <<"AAAA">> >>,
      resolved |-> << <<o1, o2>> >>, out |-> None] :
        o1 \in DnsOutcomes, o2 \in DnsOutcomes}
    \cup
    {[module |-> "dns", candidates |-> << <<"www">>, <<"mail">>, <<"api">> >>,
      record_types |-> << <<"A">> >>,
      resolved |-> << <<o1>>, <<o2>>, <<o3>> >>, out |-> None] :
        o1 \in DnsOutcomesOfA, o2 \in DnsOutcomesOfA, o3 \in DnsOutcomesOfA}

\* the result collections handed to save_results: up to three results, in
\* every order, repeated results included
ExportResults ==
    {format_web_result(ProbeUrl, 200, 120, None),
     format_web_result(ProbeUrl, 301, 0, Some(ProbeUrl \o <<"/">>)),
     format_web_result(ProbeUrl \o <<"b">>, 200, 9, None),
     format_dns_result(ProbeVHost, <<"A">>, <<"10.0.0.5">>),
     format_dns_result(ProbeVHost, <<"AAAA">>, <<"::1">>)}
ExportInputs ==
    {[module |-> "export", results |-> r, json_format |-> j, fault |-> f,
      out |-> None] :
        r \in SeqsUpTo(ExportResults, 3), j \in BOOLEAN, f \in WriteFaults}

\* the checkpoint files handed to ScanState.load
ProbeState ==
    [NewScanState(<<"dns">>, DomainTarget, <<"a", "b">>, 2, 0) EXCEPT
       !.completed_items = << <<"a">> >>,
       !.found_results = <<format_dns_result(ProbeVHost, <<"A">>, <<"10.0.0.5">>)>>]
ProbeDocument == Dumps(ProbeState, ProbeState.completed_items, ProbeState.found_results)
\* the document with the value of key k replaced by v; without the key k;
\* with one more key
WithField(doc, k, v) ==
    <<"object", [i \in 1..Len(doc[2]) |->
                    IF doc[2][i][1] = k THEN <<k, v>> ELSE doc[2][i]]>>
WithoutField(doc, k) ==
    <<"object", SelectSeq(doc[2], LAMBDA item : item[1] # k)>>
ProbeFiles ==
    {Absent, Undecodable, Malformed,
     JsonFile(ProbeDocument),
     JsonFile(<<"array", <<>> >>),
     JsonFile(<<"object", <<>> >>),
     JsonFile(WithoutField(ProbeDocument, "target")),
     JsonFile(WithoutField(ProbeDocument, "found_results")),
     JsonFile(<<"object", Append(ProbeDocument[2], <<"version", <<"number", 4>> >>)>>),
     JsonFile(WithField(ProbeDocument, "completed_items", <<"number", 5>>)),
     JsonFile(WithField(ProbeDocument, "completed_items",
                        <<"array", << <<"number", 1>> >> >>)),
     JsonFile(WithField(ProbeDocument, "found_results", <<"string", <<"a">> >>)),
     JsonFile(WithField(ProbeDocument, "found_results",
                        <<"array", << <<"string", <<"a">> >> >> >>)),
     JsonFile(WithField(ProbeDocument, "total_items", <<"string", <<"2">> >>))}
LoadInputs ==
    {[module |-> "load", file |-> f, config |-> c, out |-> None] :
        f \in ProbeFiles,
        c \in {c \in Configs : c.resume /\ c.threads = 1 /\ c.wordlist = <<"a", "b">>}}

\* the progress bars: the totals of the runs, among them nothing to scan, the
\* totals where the percentage falls short, and one past 101 entries
ProgressTotals == {0, 1, 2, 3, 7, 50, 100, MaxTotal}
Newline == [percent |-> -1, filled |-> 0, current |-> 0, total |-> 0]
ProgressInputs ==
    {[module |-> "progress", bar |-> NewProgressBar(t), written |-> <<>>,
      finished |-> FALSE] : t \in ProgressTotals}

\* the calls of get_remaining_items: candidate lists of up to MaxCandidates
\* tokens, repeated tokens among them, against up to two completed tokens
MaxCandidates == 3
RemainingInputs ==
    {[module |-> "remaining",
      state |-> [ProbeState EXCEPT !.completed_items = c],
      all_items |-> a, before |-> <<c, a>>, out |-> None] :
        c \in SeqsUpTo(Tokens, 2), a \in SeqsUpTo(Tokens, MaxCandidates)}

ProbeTarget == <<"http", ":", "/", "/", "h", ".", "i", "o">>
\* the -x/--extensions lists (validate_extensions gives each a leading dot)
ExtensionLists == {<<>>, << <<".php">> >>, << <<".php">>, <<".txt">> >>}
\* the dir command lines with extensions, and the checkpoint load returned:
\* none, or one of the same target with completed expanded entries
ExpandInputs ==
    {[module |-> "expand",
      config |-> [c EXCEPT !.extensions = IF e = <<>> THEN x ELSE Some(e)],
      loaded |-> l, out |-> None] :
        c \in {c \in Configs : c.module = "dir" /\ c.resume /\ c.threads = 1
                                /\ c.target = ProbeTarget},
        e \in ExtensionLists, x \in {None, Some(<<>>)},
        l \in {None} \cup
              {Some([NewScanState(<<"dir">>, ProbeTarget, <<"a", "b">>, 0, 0) EXCEPT
                       !.completed_items = done]) :
                  done \in {<< <<"a", ".php">> >>, << <<"a">>, <<"b", ".txt">> >>}}}

ProbeInputs ==
    DnsInputs \cup ExportInputs \cup LoadInputs \cup ProgressInputs
    \cup RemainingInputs \cup ExpandInputs \cup
    {[module |-> "dir",
      response |-> [exc |-> e, status_code |-> s, length |-> 120, url |-> u],
      status_codes |-> f, baseline |-> <<0, 0>>, out |-> None] :
        e \in ProbeExceptions, s \in ProbeStatuses, u \in ProbeFinalUrls,
        f \in ProbeFilters}
    \cup
    {[module |-> "vhost",
      response |-> [exc |-> e, status_code |-> s, length |-> l, url |-> <<>>],
      status_codes |-> None, baseline |-> b, out |-> None] :
        e \in ProbeExceptions, s \in ProbeStatuses, l \in ProbeLengths,
        b \in ProbeBaselines}

ProbeInit ==
    /\ run = 0
    /\ pc = "idle"
    /\ config = NoConfig
    /\ disk = [p \in Paths |-> Absent]
    /\ clean = [p \in Paths |-> FALSE]
    /\ probe \in ProbeInputs
    /\ Fresh

\* dir_worker handles the outcome of its request
ApplyDirRecord ==
    /\ probe.module = "dir"
    /\ IsNone(probe.out)
    /\ probe' = [probe EXCEPT
                   !.out = Some(DirRecord(ProbeUrl, probe.response, probe.status_codes))]
    /\ UNCHANGED <<run, pc, config, disk, state, all_items, scan_items,
                   work_queue, unfinished, results, progress, started, wpc,
                   witem, wpending, snap, ghost, clean,
                   log, export>>

\* vhost_worker handles the outcome of its request
ApplyVHostRecord ==
    /\ probe.module = "vhost"
    /\ IsNone(probe.out)
    /\ probe' = [probe EXCEPT
                   !.out = Some(VHostRecord(ProbeVHost, probe.response, probe.baseline))]
    /\ UNCHANGED <<run, pc, config, disk, state, all_items, scan_items,
                   work_queue, unfinished, results, progress, started, wpc,
                   witem, wpending, snap, ghost, clean,
                   log, export>>

\* dns_worker takes the candidates one after the other
ApplyDnsRecords ==
    /\ probe.module = "dns"
    /\ IsNone(probe.out)
    /\ probe' = [probe EXCEPT
                   !.out = Some(Concat([i \in 1..Len(probe.candidates) |->
                                DnsRecords(probe.candidates[i] \o <<".">> \o DomainTarget,
                                           probe.record_types, probe.resolved[i])]))]
    /\ UNCHANGED <<run, pc, config, disk, state, all_items, scan_items,
                   work_queue, unfinished, results, progress, started, wpc,
                   witem, wpending, snap, ghost, clean, log, export>>

\* a module calls save_results
ApplySaveResults ==
    /\ probe.module = "export"
    /\ IsNone(probe.out)
    /\ probe' = [probe EXCEPT
                   !.out = Some(save_results(probe.results, Metadata(NoConfig),
                                             probe.json_format, 1, probe.fault))]
    /\ UNCHANGED <<run, pc, config, disk, state, all_items, scan_items,
                   work_queue, unfinished, results, progress, started, wpc,
                   witem, wpending, snap, ghost, clean, log, export>>

\* a worker calls progress.update(): the counter, and what is written
ApplyUpdate ==
    /\ probe.module = "progress"
    /\ ~probe.finished
    /\ probe.bar.current < probe.bar.total
    /\ probe' = [probe EXCEPT
                   !.bar = update(probe.bar),
                   !.written = @ \o Written([probe.bar EXCEPT !.current = @ + 1])]
    /\ UNCHANGED <<run, pc, config, disk, state, all_items, scan_items,
                   work_queue, unfinished, results, progress, started, wpc,
                   witem, wpending, snap, ghost, clean, log, export>>

\* the main thread calls progress.finish(): the counter, the render, print()
ApplyFinish ==
    /\ probe.module = "progress"
    /\ ~probe.finished
    /\ probe' = [probe EXCEPT
                   !.bar = finish(probe.bar),
                   !.written = @ \o Written([probe.bar EXCEPT !.current = probe.bar.total])
                                 \o <<Newline>>,
                   !.finished = TRUE]
    /\ UNCHANGED <<run, pc, config, disk, state, all_items, scan_items,
                   work_queue, unfinished, results, progress, started, wpc,
                   witem, wpending, snap, ghost, clean, log, export>>

\* a resumed module calls state.get_remaining_items(all_items); the state and
\* the list are the caller's objects, read after the call
ApplyRemaining ==
    /\ probe.module = "remaining"
    /\ IsNone(probe.out)
    /\ probe' = [probe EXCEPT
                   !.out = Some(get_remaining_items(probe.state, probe.all_items))]
    /\ UNCHANGED <<run, pc, config, disk, state, all_items, scan_items,
                   work_queue, unfinished, results, progress, started, wpc,
                   witem, wpending, snap, ghost, clean, log, export>>

\* run_dir_scan from the expansion to the resume state: paths, the state and
\* scan_paths, for the ScanState that load returned (or None)
ApplyExpand ==
    /\ probe.module = "expand"
    /\ IsNone(probe.out)
    /\ LET paths == Candidates(probe.config)
           l == [raised |-> FALSE, state |-> probe.loaded]
       IN probe' = [probe EXCEPT !.out = Some(
              IF Honoured(l, probe.config)
              THEN [paths |-> paths, state |-> The(probe.loaded),
                    scan_paths |-> get_remaining_items(The(probe.loaded), paths)]
              ELSE [paths |-> paths,
                    state |-> NewScanState(<<"dir">>, probe.config.target,
                                           probe.config.wordlist, Len(paths), 1),
                    scan_paths |-> paths])]
    /\ UNCHANGED <<run, pc, config, disk, state, all_items, scan_items,
                   work_queue, unfinished, results, progress, started, wpc,
                   witem, wpending, snap, ghost, clean, log, export>>

\* a module started with --resume calls ScanState.load and tests the outcome
ApplyLoad ==
    /\ probe.module = "load"
    /\ IsNone(probe.out)
    /\ LET l == load(probe.file, 1)
       IN probe' = [probe EXCEPT
                      !.out = Some([raised |-> l.raised, state |-> l.state,
                                    honoured |-> ~l.raised /\ Honoured(l, probe.config)])]
    /\ UNCHANGED <<run, pc, config, disk, state, all_items, scan_items,
                   work_queue, unfinished, results, progress, started, wpc,
                   witem, wpending, snap, ghost, clean, log, export>>

ProbeNext ==
    \/ ApplyDirRecord
    \/ ApplyVHostRecord
    \/ ApplyDnsRecords
    \/ ApplySaveResults
    \/ ApplyLoad
    \/ ApplyExpand
    \/ ApplyRemaining
    \/ ApplyUpdate
    \/ ApplyFinish

ProbeSpec == ProbeInit /\ [][ProbeNext]_vars

\* ==================================================================== claims
\* the run went through its whole scan and returned its results
Completed == pc = "returned" /\ started = config.threads

\* every match of every candidate of the run, in wordlist order
Expected(cfg) ==
    LET W == Candidates(cfg) IN Concat([i \in 1..Len(W) |-> Probe(cfg, W[i])])

\* the file at the run's checkpoint path
Checkpoint == disk[path]
IsJson(file) == file[1] = "json"
\* the ScanState a checkpoint file loads as
Loaded(file) == The(load(file, run).state)

\* C1: with a probe whose outcome depends only on the candidate, a scan that
\* runs to completion without interrupt and without a restored checkpoint ends
\* with the same collection of results for every thread count and every
\* interleaving: every match of every wordlist entry, none lost, none
\* duplicated, in any order.
C1_SameResultsForAnyThreads ==
    (Completed /\ ~ghost.honoured) =>
        SeqToBag(results) = SeqToBag(Expected(config))

\* C1 witness: two workers finished a scan whose results came in another order
\* than the wordlist's
C1_Witness ==
    /\ Completed
    /\ ~ghost.honoured
    /\ config.threads = 2
    /\ Len(results) >= 2
    /\ results # Expected(config)

\* C2: a scan interrupted and checkpointed, then resumed to completion with
\* the same target, module and wordlist, ends with the result set of one
\* uninterrupted run over the whole wordlist.
C2_ResumeEqualsUninterrupted ==
    (Completed /\ ghost.honoured /\ ghost.pure) =>
        Range(results) = Range(Expected(config))

\* C2 witness: a resumed run that skipped completed candidates, scanned the
\* rest and returned restored and new results
C2_Witness ==
    /\ Completed
    /\ ghost.honoured
    /\ ghost.pure
    /\ ghost.K > 0
    /\ scan_items # <<>>
    /\ Len(results) > Len(Concat([i \in 1..Len(scan_items) |-> Probe(config, scan_items[i])]))

\* the completed items of the checkpoint the run honoured (completed_items
\* only grows by appending)
CompletedAtLoad == SubSeq(The(state).completed_items, 1, ghost.K)
\* the entries of the candidate sequence whose token the checkpoint completed
SkippedEntries == {i \in 1..Len(all_items) : all_items[i] \in Range(CompletedAtLoad)}
NoRepeats(seq) == Cardinality(Range(seq)) = Len(seq)

WrittenByThisRun ==
    /\ IsJson(Checkpoint)
    /\ Item(Checkpoint[2][2], "last_updated") = <<"string", Isoformat(run)>>

\* C4: whenever an interrupt arrives while the main thread waits for the queue
\* to drain, the ScanState is written to the checkpoint file before the
\* interrupt is re-raised, whether or not the run was started with the resume
\* flag (a save cut short by a second interrupt aside).
C4_InterruptSavesCheckpoint ==
    (pc = "exit_interrupt" /\ Checkpoint # Malformed) => WrittenByThisRun

\* C5: when a run completes normally, no checkpoint file for its target
\* remains on disk, also when the run resumed from that file.
C5_NoCheckpointAfterCompletion ==
    Completed => ~IsJson(Checkpoint)

\* C6: save followed by load returns a ScanState whose completed_items and
\* found_results equal, element by element and in order, those that were
\* saved: for the ScanState of every reachable state saved as it stands, and
\* for the file an interrupted run wrote.
C6_SaveLoadRoundTrip ==
    /\ ~IsNone(state) =>
          LET s == The(state)
              back == Loaded(JsonFile(Dumps(s, s.completed_items, s.found_results)))
          IN /\ back.completed_items = s.completed_items
             /\ back.found_results = s.found_results
             /\ back.module = s.module
             /\ back.target = s.target
    /\ (pc = "exit_interrupt" /\ WrittenByThisRun) =>
          /\ Loaded(Checkpoint).completed_items = snap
          /\ Loaded(Checkpoint).found_results = The(state).found_results

\* C6 witness: an interrupted run saved two completed candidates and a result
\* that holds a None field
C6_Witness ==
    /\ pc = "exit_interrupt"
    /\ WrittenByThisRun
    /\ Len(snap) = 2
    /\ Len(The(state).found_results) > 0
    /\ config.module = "dir"
    /\ Item(The(state).found_results[1], "redirect") = PyNone

\* the checkpoint file loads as a ScanState of this run's module and target
Matches(file) ==
    /\ IsJson(file)
    /\ AcceptedByInit(file[2])
    /\ Loaded(file).module = <<config.module>>
    /\ Loaded(file).target = config.target

\* C7: on a run with resume requested, a loaded checkpoint is used only if its
\* module and target equal the run's; in every other case (no file,
\* unreadable content, other module, other target) the run goes on with a
\* fresh ScanState and the full wordlist, without failing.
C7_ResumeOnlyOnMatch ==
    config.resume =>
        /\ ~(pc = "exit_error" /\ started = 0)
        /\ (pc = "enqueue" /\ Matches(Checkpoint)) => ghost.honoured
        /\ (pc = "enqueue" /\ ~Matches(Checkpoint)) =>
              /\ ~ghost.honoured
              /\ ~IsNone(state)
              /\ The(state).completed_items = <<>>
              /\ The(state).found_results = <<>>
              /\ scan_items = all_items

\* C8: every completed candidate of the run's ScanState is a candidate of the
\* run's candidate sequence, also right after a checkpoint was honoured,
\* whatever wordlist the checkpointed run used.
C8_CompletedWithinCandidates ==
    ~IsNone(state) =>
        Range(The(state).completed_items) \subseteq Range(all_items)

\* what a decided probe input recorded
Decided(m) == probe.module = m /\ ~IsNone(probe.out) /\ IsNone(probe.response.exc)
Recorded == The(probe.out) # <<>>

\* C9: the VHost probe records a match for a response (status, length) against
\* a baseline (bstatus, blength) if and only if status is not 404 and (status
\* differs from bstatus or |length - blength| is strictly more than 10% of
\* blength); with baseline (200, 1000): (200, 1000) suppressed, (200, 1200)
\* matched, (404, *) suppressed, (500, 1000) matched, and a length exactly
\* 10% away with the same status suppressed.
C9_VHostDecision ==
    Decided("vhost") =>
        LET status == probe.response.status_code
            length == probe.response.length
            bstatus == probe.baseline[1]
            blength == probe.baseline[2]
        IN /\ Recorded <=>
                 /\ status # 404
                 /\ \/ status # bstatus
                    \/ 10 * Abs(length - blength) > blength
           /\ (bstatus = 200 /\ blength = 1000) =>
                 /\ (status = 200 /\ length = 1000) => ~Recorded
                 /\ (status = 200 /\ length = 1200) => Recorded
                 /\ status = 404 => ~Recorded
                 /\ (status = 500 /\ length = 1000) => Recorded
                 /\ (status = 200 /\ length \in {900, 1100}) => ~Recorded

\* C9 witness: a response matched on its length alone, just past the threshold
C9_Witness ==
    /\ Decided("vhost")
    /\ probe.baseline = <<200, 1000>>
    /\ probe.response.status_code = 200
    /\ probe.response.length = 1101
    /\ Recorded

\* C10: the HTTP path probe records a match for a response if and only if its
\* status is not 404 and, when a status-code allow-list is configured, the
\* status is in the list; with allow-list {200, 301} a 403 is suppressed and a
\* 301 reported, and a 404 is suppressed even when 404 is in the allow-list.
C10_DirDecision ==
    Decided("dir") =>
        LET status == probe.response.status_code
            configured == ~IsNone(probe.status_codes)
            allowed == Range(The(probe.status_codes))
        IN /\ Recorded <=> (status # 404 /\ (configured => status \in allowed))
           /\ probe.status_codes = Some(<<200, 301>>) =>
                 /\ status = 403 => ~Recorded
                 /\ status = 301 => Recorded
           /\ (configured /\ 404 \in allowed /\ status = 404) => ~Recorded

\* C10 witness: a 404 answered to a run whose allow-list holds 404
C10_Witness ==
    /\ Decided("dir")
    /\ ~IsNone(probe.status_codes)
    /\ 404 \in Range(The(probe.status_codes))
    /\ probe.response.status_code = 404
    /\ ~Recorded

\* the (candidate, record type, answer) positions of the DNS input that hold
\* a record value
Answered ==
    {p \in (1..Len(probe.candidates)) \X (1..Len(probe.record_types)) \X (1..2) :
        /\ IsNone(probe.resolved[p[1]][p[2]].exc)
        /\ p[3] <= Len(probe.resolved[p[1]][p[2]].answers)}
\* the positions of the results that record the value at position p
RecordsOf(p) ==
    {n \in 1..Len(The(probe.out)) :
        /\ Item(The(probe.out)[n], "subdomain")
              = PyStr(probe.candidates[p[1]] \o <<".">> \o DomainTarget)
        /\ Item(The(probe.out)[n], "type") = PyStr(probe.record_types[p[2]])
        /\ Item(The(probe.out)[n], "value")
              = PyStr(probe.resolved[p[1]][p[2]].answers[p[3]])}

\* C11: the DNS probe records exactly one Result per record value returned,
\* and none for a record type whose resolution raises (name not found, no
\* answer, timeout, no nameservers, any other exception); a failing type does
\* not prevent the results of the other types.  For the wordlist
\* [www, mail, api] asked for A where only api resolves, to one address, the
\* collection holds exactly one result, for api.<target>.
C11_DnsOneResultPerValue ==
    (probe.module = "dns" /\ ~IsNone(probe.out)) =>
        /\ Len(The(probe.out)) = Cardinality(Answered)
        /\ \A p \in Answered : Cardinality(RecordsOf(p)) = 1
        /\ (/\ Len(probe.candidates) = 3
            /\ Answered = {<<3, 1, 1>>}) =>
               /\ Len(The(probe.out)) = 1
               /\ Item(The(probe.out)[1], "subdomain")
                     = PyStr(<<"api", ".">> \o DomainTarget)

\* C11 witness: the first record type raised an exception of no DNS class,
\* the second returned two values, and both values were recorded
C11_Witness ==
    /\ probe.module = "dns"
    /\ ~IsNone(probe.out)
    /\ Len(probe.candidates) = 1
    /\ probe.resolved[1][1].exc = Some("Exception")
    /\ Len(probe.resolved[1][2].answers) = 2
    /\ Len(The(probe.out)) = 2

\* save_results was applied to the input and returned True
Exported == probe.module = "export" /\ ~IsNone(probe.out) /\ The(probe.out).ok
\* the lines of a text export that are no header line and not empty
ResultLines(file) ==
    SelectSeq(file[2], LAMBDA line : line # <<>> /\ Head(line) # "#")
\* the entries under "results" of a structured export
ResultEntries(file) == Item(file[2][2], "results")[2]

\* C12: for every result collection R, the text export writes exactly |R|
\* result lines, the rendering of every result verbatim and as many times as
\* it occurs in R, and the structured export holds exactly |R| result
\* entries, those of R, with total_count = |R|.
C12_ExportHoldsEveryResult ==
    Exported =>
        LET R == probe.results
            file == The(probe.out).file
        IN IF probe.json_format
           THEN /\ file[1] = "json"
                /\ Len(ResultEntries(file)) = Len(R)
                /\ SeqToBag(ResultEntries(file))
                      = SeqToBag([i \in 1..Len(R) |-> JsonObjectOfDict(R[i])])
                /\ Item(file[2][2], "total_count") = <<"number", Len(R)>>
           ELSE /\ file[1] = "text"
                /\ Len(ResultLines(file)) = Len(R)
                /\ SeqToBag(ResultLines(file))
                      = SeqToBag([i \in 1..Len(R) |-> RawOf(R[i])])

\* C12 witness: a text export of three results of which two have the same
\* rendering
C12_Witness ==
    /\ Exported
    /\ ~probe.json_format
    /\ Len(probe.results) = 3
    /\ probe.results[1] = probe.results[3]
    /\ probe.results[1] # probe.results[2]
    /\ Len(ResultLines(The(probe.out).file)) = 3

\* the result collections that are permutations of R
Reorderings(R) ==
    {[i \in 1..Len(R) |-> R[p[i]]] : p \in Permutations(1..Len(R))}
\* the results of an export file, in the order of the file: the renderings of
\* a text export, the entries of a structured one
ResultContent(file) ==
    IF file[1] = "json"
    THEN [i \in 1..Len(ResultEntries(file)) |->
             <<"string", RawOf(DictOfJsonObject(ResultEntries(file)[i]))>>]
    ELSE [i \in 1..Len(ResultLines(file)) |-> <<"string", ResultLines(file)[i]>>]
\* renderings in ascending order
Ascending(content) ==
    \A i \in 1..Len(content) : \A j \in (i + 1)..Len(content) :
        ~StrLess(content[j][2], content[i][2])

\* C13: for any two result collections that are permutations of one another
\* the export holds the results in the same order, ascending by rendering, in
\* the text and in the structured encoding.
C13_ExportOrderIndependent ==
    Exported =>
        /\ Ascending(ResultContent(The(probe.out).file))
        /\ \A Q \in Reorderings(probe.results) :
              ResultContent(save_results(Q, Metadata(NoConfig), probe.json_format,
                                         1, None).file)
                = ResultContent(The(probe.out).file)

\* C14: for every outcome of a probe call, raised exceptions of any kind
\* included, in each of the three modules, the worker that claimed the
\* candidate stays alive and goes on to mark it completed, advance the
\* progress, signal the queue and claim the next candidate: no worker thread
\* is ended by a probe.
C14_ProbeFailureKeepsWorker ==
    \A w \in Workers :
        /\ wpc[w] # "dead"
        /\ (wpc[w] \in {"add", "mark", "update", "task_done"}) => unfinished > 0

\* the main thread is past work_queue.join(): progress.finish, summary,
\* export, cleanup
Summarizing == pc \in {"finish", "cleanup"}

\* C15: the main thread leaves the wait and reads the results for summary and
\* export only after every enqueued candidate has been dequeued and fully
\* processed (its results appended, the candidate marked completed, progress
\* advanced); from then on no worker appends to the results or changes the
\* ScanState.
C15_SummaryAfterDrain ==
    /\ [](Summarizing =>
            /\ work_queue = <<>>
            /\ unfinished = 0
            /\ \A w \in Workers : wpc[w] \in {"none", "get", "exited"}
            /\ progress.current >= Len(scan_items)
            /\ ~IsNone(state) =>
                  Range(scan_items) \subseteq Range(The(state).completed_items)
            /\ \A i \in 1..Len(scan_items) :
                  \A r \in Range(Probe(config, scan_items[i])) : r \in Range(results))
    /\ [][Summarizing => (results' = results /\ state' = state)]_vars

\* C15 witness: two workers drained a queue of two candidates with matches,
\* and the main thread is at the summary
C15_Witness ==
    /\ pc = "finish"
    /\ config.threads = 2
    /\ Len(scan_items) = 2
    /\ Len(results) >= 2
    /\ \E w \in Workers : wpc[w] = "get"

\* the run logged that the wordlist could not be opened
WordlistErrors ==
    {<<"error", "Wordlist not found">>, <<"error", "Permission denied reading">>}
WordlistFailed == log # <<>> /\ log[1] \in WordlistErrors

\* C16: if the wordlist cannot be opened (not found or permission denied), the
\* module returns an empty result list with one error message; no work queue
\* was filled, no worker thread started, no probe issued, and the checkpoint
\* file was neither read nor written nor deleted.
C16_WordlistFailureAborts ==
    /\ [](WordlistFailed =>
            /\ pc = "returned"
            /\ results = <<>>
            /\ Len(log) = 1
            /\ ~ghost.enqueued
            /\ work_queue = <<>>
            /\ started = 0
            /\ \A w \in Workers : wpc[w] = "none"
            /\ ~ghost.probed
            /\ ~ghost.loaded
            /\ IsNone(state))
    /\ [][WordlistFailed' => (disk' = disk /\ clean' = clean)]_vars

\* C16 witness: a resumed run whose checkpoint file exists has ended on the
\* wordlist error
C16_Witness ==
    /\ WordlistFailed
    /\ pc = "returned"
    /\ config.resume
    /\ IsJson(disk[path])

\* the checkpoint file holds a document with the required fields, no unknown
\* field, and every field of the type its annotation names
WellTyped(file) ==
    /\ IsJson(file)
    /\ AcceptedByInit(file[2])
    /\ \A i \in 1..Len(file[2][2]) :
          LET k == file[2][2][i][1]
              v == file[2][2][i][2]
          IN /\ v[1] = FieldType(k)
             /\ k = "completed_items" => \A e \in Range(v[2]) : e[1] = "string"
             /\ k = "found_results" => \A e \in Range(v[2]) : e[1] = "object"

\* C17: ScanState.load returns no state, and raises no error, whenever the
\* checkpoint file is absent, is not parseable, lacks a required field, has an
\* unknown field, or holds a field of the wrong type; a resume in any of these
\* cases falls back to a fresh state.
C17_LoadRejectsBadFiles ==
    (probe.module = "load" /\ ~IsNone(probe.out) /\ ~WellTyped(probe.file)) =>
        /\ ~The(probe.out).raised
        /\ IsNone(The(probe.out).state)
        /\ ~The(probe.out).honoured

\* the step on which the interrupt handler's state.save fails to write: the
\* handler holds a state and the process ends without reaching the dump
CheckpointWriteFails == pc = "except" /\ ~IsNone(state) /\ pc' \in Terminal

\* C18: if writing the checkpoint file fails when the orchestrator saves state
\* after an interrupt, the failure is logged as a failure of the checkpoint
\* write (not as an unexpected error), the interrupt is still propagated as an
\* interrupt, and the process ends through the interrupt path with exit
\* status 0.
C18_CheckpointWriteFailureKeepsInterrupt ==
    [][CheckpointWriteFails =>
          /\ pc' = "exit_interrupt"
          /\ ExitStatus' = 0
          /\ <<"warning", "Program interrupted by user.">> \in Range(log')
          /\ <<"error", "Unexpected error">> \notin Range(log')
          /\ Len(log') > Len(log) + 1]_vars

\* C20: an external interrupt during a module run ends the process with exit
\* status 0, and any other exception escaping a module ends it with exit
\* status 1; a run that was interrupted never ends with status 1, whatever
\* happens while the interrupt is handled.
C20_InterruptExitsZero ==
    pc \in Terminal =>
        /\ ghost.interrupted => (pc = "exit_interrupt" /\ ExitStatus = 0)
        /\ ExitStatus = 1 => ~ghost.interrupted
        /\ (~ghost.interrupted /\ pc # "returned") => ExitStatus = 1

\* the write of the export file of this run failed
ExportFailed == export.file = <<"incomplete">>
\* the error entries of the log
Errors == SelectSeq(log, LAMBDA entry : entry[1] = "error")

\* C19: if writing the export file fails for any reason, save_results returns
\* failure without raising, the module logs one error for the export, the
\* in-memory result collection is unchanged, and the module still returns the
\* full result list to its caller.
C19_ExportFailureKeepsResults ==
    /\ [](ExportFailed =>
            /\ ~export.ok
            /\ pc \in {"cleanup", "returned"}
            /\ Errors = << <<"error", "Failed to save results">> >>
            /\ \A i \in 1..Len(scan_items) :
                  \A r \in Range(Probe(config, scan_items[i])) : r \in Range(results))
    /\ [][ExportFailed' => results' = results]_vars

\* C19 witness: a run whose export failed has returned its two or more results
C19_Witness ==
    /\ ExportFailed
    /\ pc = "returned"
    /\ Len(results) >= 2

\* the checkpoint file belongs to the (target, module) pair of the run
OwnCheckpoint(file) ==
    /\ Loaded(file).module = <<config.module>>
    /\ Loaded(file).target = config.target

\* C21: there is one checkpoint file per (target, module) pair: command lines
\* whose (target, module) pairs differ get different checkpoint paths, so a
\* run never overwrites or deletes the checkpoint of another module run
\* against the same target, nor that of a different target.
C21_OneCheckpointPerTargetModule ==
    /\ [](run > 0 =>
            \A d \in Configs :
                (d.target # config.target \/ d.module # config.module)
                    => get_state_filepath(d) # path)
    /\ [][\A p \in Paths :
             (IsJson(disk[p]) /\ disk'[p] # disk[p]) => OwnCheckpoint(disk[p])]_vars

\* the main thread is in its except KeyboardInterrupt block
HandlingInterrupt == pc \in {"except", "saving"}

\* C22: after the orchestrator has observed the interrupt, no worker dequeues
\* a further candidate: every dequeue of a run happens before the handling of
\* the interrupt begins (probes in flight may finish).
C22_NoDequeueAfterInterrupt ==
    [][HandlingInterrupt =>
          \A w \in Workers :
              wpc[w] = "get" => wpc'[w] \in {"get", "exited", "none"}]_vars

\* C23: the checkpoint save never runs concurrently with a worker's mutation
\* of the ScanState: while save serializes completed_items and found_results
\* no worker executes mark_completed or add_result, so the saved file is a
\* snapshot of one state the ScanState had between whole worker updates
\* (completed_items and found_results as they were at one moment).
C23_SaveExcludesWorkerMutation ==
    [][pc = "saving" =>
          /\ The(state').completed_items = The(state).completed_items
          /\ The(state').found_results = The(state).found_results]_vars

\* every result the ScanState holds is a result of a candidate it marks
\* completed
ResultsOfCompleted(s) ==
    \A r \in Range(s.found_results) :
        \E item \in Range(s.completed_items) : r \in Range(Probe(config, item))

\* C24: the results of a candidate and its completion mark are recorded as one
\* atomic update: in no state in which the lock is free (every state between
\* two steps), and so in no checkpoint that can be saved, does found_results
\* hold a result of a candidate that is absent from completed_items.
C24_ResultsAndMarkAtomic ==
    /\ (Alive /\ ~IsNone(state)) => ResultsOfCompleted(The(state))
    /\ (pc = "exit_interrupt" /\ WrittenByThisRun) =>
          ResultsOfCompleted(Loaded(Checkpoint))

\* C25: for a duplicate-free wordlist, a scan that is interrupted,
\* checkpointed and resumed to completion records each match at most once:
\* the final result collection of the resumed run holds no result twice,
\* wherever the interrupt arrived between a worker's recording of a result
\* and its marking of the candidate as completed.
C25_ResumeRecordsEachMatchOnce ==
    (Completed /\ ghost.honoured /\ ghost.pure /\ NoRepeats(all_items)) =>
        NoRepeats(results)

IsPrefix(s, t) == Len(s) <= Len(t) /\ s = SubSeq(t, 1, Len(s))

\* C26: in a run that holds a ScanState, the result collection starts as a
\* copy of the restored found_results and, in every state in which the lock is
\* free, equals as a sequence the ScanState's found_results; results are only
\* appended, so the restored results stay an unchanged prefix of both for the
\* whole run.
C26_ResultsMirrorFoundResults ==
    /\ []((ghost.enqueued /\ ~IsNone(state)) => results = The(state).found_results)
    /\ [][(pc = "enqueue" /\ ~IsNone(state)) =>
             (results' = The(state).found_results /\ state' = state)]_vars
    /\ [][(ghost.enqueued /\ ghost'.enqueued) =>
             /\ IsPrefix(results, results')
             /\ ~IsNone(state) =>
                   IsPrefix(The(state).found_results, The(state').found_results)]_vars

\* C26 witness: a resumed run that restored results is appending a new one
C26_Witness ==
    /\ pc = "join"
    /\ ghost.honoured
    /\ \E w \in Workers : wpc[w] = "mark"
    /\ Len(scan_items) = 1
    /\ Len(results) > Len(Probe(config, scan_items[1]))
    /\ results = The(state).found_results

\* C27: under fair scheduling, with at least one worker, every probe call
\* returning (with a result or with a failure of any kind) and no interrupt,
\* every run that built its queue eventually drains it and the main thread
\* leaves the wait and reaches the summary, for the three modules and also
\* when the queue is empty from the start.
C27_RunReachesSummary ==
    (pc = "join") ~> (Summarizing \/ ghost.interrupted)

IsSuffix(s, t) == Len(s) <= Len(t) /\ s = SubSeq(t, Len(t) - Len(s) + 1, Len(t))
\* the worker threads of the run have all ended
AllWorkersEnded ==
    /\ Alive
    /\ started = config.threads
    /\ \A w \in 1..config.threads : wpc[w] \in {"exited", "dead"}

\* C28: the work queue is filled with every candidate to scan before the
\* first worker is started and nothing is enqueued afterwards, so a worker
\* ends only when the queue holds no unclaimed candidate: in no reachable
\* state have all workers ended while a candidate is still waiting in the
\* queue.
C28_NoCandidateLeftInQueue ==
    /\ []((Alive /\ started > 0) => ghost.enqueued)
    /\ [][(Alive /\ started > 0 /\ pc' = pc) => IsSuffix(work_queue', work_queue)]_vars
    /\ [](AllWorkersEnded => work_queue = <<>>)

\* the workers that hold a queue entry: taken and not yet marked done
InFlight == {w \in Workers : wpc[w] \in {"add", "mark", "update", "task_done", "dead"}}
\* the entries of the queue taken so far: scan_items without what still waits
Claimed == SubSeq(scan_items, 1, Len(scan_items) - Len(work_queue))
\* the step is worker w taking a queue entry
Claims(w) == wpc[w] = "get" /\ wpc'[w] \in {"add", "mark", "dead"}

\* C29: every queue entry is claimed by exactly one worker and probed exactly
\* once per run: a claim takes the head entry off the queue and hands it to
\* one worker, no entry is held by two workers, and each occurrence of a token
\* that appears several times in the enqueued sequence is claimed and probed
\* separately.
C29_EachEntryClaimedOnce ==
    /\ []((Alive /\ ghost.enqueued) =>
            /\ IsSuffix(work_queue, scan_items)
            /\ unfinished - Len(work_queue) = Cardinality(InFlight)
            /\ progress.current <= Len(Claimed)
            /\ SeqToBag([i \in 1..Cardinality(InFlight) |->
                            witem[CHOOSE w \in InFlight :
                                    Cardinality({v \in InFlight : v < w}) = i - 1]])
                  \sqsubseteq SeqToBag(Claimed))
    /\ [][\A w \in Workers :
             Claims(w) =>
                 /\ witem'[w] = Head(work_queue)
                 /\ wpending'[w] = Probe(config, Head(work_queue))
                 /\ work_queue' = Tail(work_queue)
                 /\ \A v \in Workers \ {w} : wpc'[v] = wpc[v] /\ witem'[v] = witem[v]]_vars
    /\ []((Completed /\ ~ghost.honoured) =>
            /\ progress.current = Len(scan_items)
            /\ \A r \in Range(results) :
                  Cardinality({i \in 1..Len(results) : results[i] = r})
                    = Cardinality({i \in 1..Len(scan_items) :
                                     r \in Range(Probe(config, scan_items[i]))}))

\* C29 witness: two workers each hold one of the two occurrences of a token
C29_Witness ==
    /\ config.threads = 2
    /\ scan_items = << <<"a">>, <<"a">> >>
    /\ InFlight = {1, 2}
    /\ witem[1] = witem[2]
    /\ work_queue = <<>>

\* the queue entries whose progress.update() has run
Advanced ==
    Len(scan_items) - unfinished + Cardinality({w \in Workers : wpc[w] = "task_done"})

\* C30: the progress counter starts at 0, never decreases and never exceeds
\* total during a run; it is advanced exactly once per processed queue entry,
\* no increment being lost under concurrent updates, and when the queue is
\* drained the counter equals the number of enqueued candidates (the total).
C30_ProgressCountsProcessedEntries ==
    /\ [][pc = "enqueue" =>
             (progress'.current = 0 /\ progress'.total = Len(scan_items))]_vars
    /\ []((Alive /\ ghost.enqueued) =>
            /\ progress.total = Len(scan_items)
            /\ 0 <= progress.current
            /\ progress.current <= progress.total
            /\ pc \in {"start", "join", "except", "saving", "finish"} =>
                  progress.current = Advanced
            /\ pc = "finish" => progress.current = progress.total)
    /\ [][(ghost.enqueued /\ ghost'.enqueued) =>
             /\ progress'.current >= progress.current
             /\ pc' = pc => progress'.current \in {progress.current, progress.current + 1}
             /\ progress'.total = progress.total]_vars

\* C30 witness: two workers have both advanced the counter of a two-entry run
\* and neither has yet marked its task done
C30_Witness ==
    /\ pc = "join"
    /\ wpc = <<"task_done", "task_done">>
    /\ unfinished = 2
    /\ progress.current = 2
    /\ progress.total = 2

\* the renders written so far (the lines without the final newline)
Renders == SelectSeq(probe.written, LAMBDA line : line # Newline)

\* C31: the progress tracker writes a render only when the integer percentage
\* differs from the last rendered one: two consecutive renders never show the
\* same percentage, the rendered percentage never decreases during a run, and
\* a run of any size therefore produces at most 101 renders.
C31_RenderOnPercentChange ==
    probe.module = "progress" =>
        /\ \A i \in 1..(Len(Renders) - 1) : Renders[i].percent < Renders[i + 1].percent
        /\ \A i \in 1..Len(Renders) : Renders[i].percent \in 0..100
        /\ Len(Renders) <= 101
        /\ Renders # <<>> => Renders[Len(Renders)].percent = probe.bar.last_percent

\* C31 witness: a bar of more than 101 entries was advanced to its end, past
\* an entry that left the percentage as it was
C31_Witness ==
    /\ probe.module = "progress"
    /\ probe.bar.total = MaxTotal
    /\ probe.bar.current = probe.bar.total
    /\ Len(Renders) = 101
    /\ \E i \in 1..Len(Renders) : Renders[i].current = 88 /\ Renders[i].percent = 58
    /\ ~probe.finished

\* the bar was finished: what finish() wrote, the last two lines at most
Finished == probe.module = "progress" /\ probe.finished

\* C32: finish() sets the counter to total and emits a final render of the
\* completed bar followed by a newline, for every total and every counter
\* value at the time of the call, including total = 0 and a counter that
\* already equals total.
C32_FinishRendersCompletedBar ==
    Finished =>
        /\ probe.bar.current = probe.bar.total
        /\ Len(probe.written) >= 2
        /\ probe.written[Len(probe.written)] = Newline
        /\ LET last == probe.written[Len(probe.written) - 1]
           IN /\ last # Newline
              /\ last.current = probe.bar.total
              /\ last.total = probe.bar.total
              /\ last.filled = Width
              /\ last.percent = 100

RECURSIVE IsSubsequence(_, _)
\* s can be had from t by deleting entries
IsSubsequence(s, t) ==
    IF s = <<>> THEN TRUE
    ELSE IF t = <<>> THEN FALSE
    ELSE IF Head(s) = Head(t) THEN IsSubsequence(Tail(s), Tail(t))
    ELSE IsSubsequence(s, Tail(t))
Occurrences(x, seq) == Cardinality({i \in 1..Len(seq) : seq[i] = x})

\* C33: get_remaining_items returns exactly the entries of all_items that are
\* not in the state's completed set, in their original relative order: a
\* subsequence of all_items that shares no token with the completed set and
\* omits no uncompleted entry; all_items and the state are left unchanged.
C33_RemainingIsOrderedDifference ==
    (probe.module = "remaining" /\ ~IsNone(probe.out)) =>
        LET remaining == The(probe.out)
            completed == Range(probe.state.completed_items)
        IN /\ IsSubsequence(remaining, probe.all_items)
           /\ Range(remaining) \cap completed = {}
           /\ \A x \in Range(probe.all_items) \ completed :
                 Occurrences(x, remaining) = Occurrences(x, probe.all_items)
           /\ probe.before = <<probe.state.completed_items, probe.all_items>>

\* C33 witness: of a list that repeats an uncompleted token around a completed
\* one, both occurrences are returned in order
C33_Witness ==
    /\ probe.module = "remaining"
    /\ probe.all_items = << <<"b">>, <<"a">>, <<"b">> >>
    /\ probe.state.completed_items = << <<"a">>, <<"c">> >>
    /\ probe.out = Some(<< <<"b">>, <<"b">> >>)

\* the extension list of the command line ([] when none was given)
ExtensionsOf(cfg) == IF IsNone(cfg.extensions) THEN <<>> ELSE The(cfg.extensions)

\* C34: with a non-empty extension list E, expansion turns every wordlist
\* entry p into exactly 1 + |E| consecutive queue entries, p itself followed
\* by p + e for every e of E in configured order, the wordlist order kept, so
\* the expanded sequence has |paths| * (1 + |E|) entries; with no extensions
\* the sequence is unchanged.  The resume state (completed set, remaining
\* items, total) is computed over the expanded sequence.
C34_ExpansionPerEntry ==
    (probe.module = "expand" /\ ~IsNone(probe.out)) =>
        LET W == load_wordlist(probe.config.wordlist)
            E == ExtensionsOf(probe.config)
            o == The(probe.out)
            n == 1 + Len(E)
        IN /\ Len(o.paths) = Len(W) * n
           /\ \A i \in 1..Len(W) :
                 /\ o.paths[(i - 1) * n + 1] = W[i]
                 /\ \A k \in 1..Len(E) : o.paths[(i - 1) * n + 1 + k] = W[i] \o E[k]
           /\ E = <<>> => o.paths = W
           /\ IsSubsequence(o.scan_paths, o.paths)
           /\ Range(o.scan_paths) = Range(o.paths) \ Range(o.state.completed_items)
           /\ \A x \in Range(o.scan_paths) :
                 Occurrences(x, o.scan_paths) = Occurrences(x, o.paths)
           /\ IsNone(probe.loaded) => o.state.total_items = Len(o.paths)

\* C34 witness: two paths with two extensions became six entries, of which a
\* restored checkpoint had completed a.php
C34_Witness ==
    /\ probe.module = "expand"
    /\ ~IsNone(probe.out)
    /\ Len(The(probe.out).paths) = 6
    /\ The(probe.out).paths[2] = <<"a", ".php">>
    /\ Len(The(probe.out).scan_paths) = 5
    /\ The(probe.out).scan_paths[2] = <<"a", ".txt">>

\* the log holds no outcome of save_results
NoExportLogged ==
    \A i \in 1..Len(log) : log[i][1] # "success"
                            /\ log[i][2] # "Failed to save results"

\* C35: after an interrupt during the wait the module never enters the
\* summary: no progress finish, no summary, no export file write and no
\* checkpoint deletion happens in that run after the interrupt was observed;
\* the only file written is the checkpoint.
C35_InterruptSkipsSummary ==
    /\ [](ghost.interrupted =>
            /\ pc \in {"except", "saving", "exit_interrupt", "exit_error"}
            /\ export = NoExport
            /\ NoExportLogged)
    /\ [][(ghost.interrupted /\ ghost'.interrupted) =>
             /\ \A p \in DOMAIN disk \ {path} : disk'[p] = disk[p]
             /\ disk'[path] # disk[path] => disk'[path] # Absent
             /\ export' = export
             /\ pc' # pc => progress' = progress]_vars

\* C35 witness: an interrupted run has ended, its checkpoint written and no
\* export made, with candidates left unprocessed
C35_Witness ==
    /\ pc = "exit_interrupt"
    /\ ghost.interrupted
    /\ WrittenByThisRun
    /\ export = NoExport
    /\ progress.current < progress.total

\* the run logged that the base host is missing or the baseline request failed
VHostAbortErrors ==
    {<<"error", "VHost enumeration requires --host">>,
     <<"error", "Could not connect to target">>}
VHostAborted == log # <<>> /\ log[1] \in VHostAbortErrors

\* C36: in the VHost module a missing base host or a failed baseline request
\* aborts the run with an empty result list before the work queue is filled
\* and before any worker starts, no checkpoint file being read, written or
\* deleted; otherwise the baseline (status, length) is captured exactly once
\* before the pool starts and no worker ever changes it.
C36_VHostAbortsOrFixesBaseline ==
    /\ [](VHostAborted =>
            /\ config.module = "vhost"
            /\ pc = "returned"
            /\ results = <<>>
            /\ Len(log) = 1
            /\ ~ghost.enqueued
            /\ work_queue = <<>>
            /\ started = 0
            /\ ~ghost.probed
            /\ ~ghost.loaded
            /\ IsNone(state))
    /\ [][VHostAborted' => (disk' = disk /\ clean' = clean)]_vars
    /\ []((config.module = "vhost" /\ (ghost.enqueued \/ ghost.loaded)) =>
            ghost.baseline = Some(Baseline))
    /\ [][(~IsNone(ghost.baseline) /\ run' = run) =>
             ghost'.baseline = ghost.baseline]_vars
    /\ [][ghost'.baseline # ghost.baseline =>
             (IsNone(ghost'.baseline) \/ (pc = "baseline" /\ started = 0))]_vars

\* C36 witness: a resumed vhost run whose checkpoint file exists has ended on
\* the failed baseline request
C36_Witness ==
    /\ VHostAborted
    /\ log[1][2] = "Could not connect to target"
    /\ pc = "returned"
    /\ config.resume
    /\ IsJson(disk[path])

CompletedItems == The(state).completed_items

\* C38: mark_completed is idempotent and only grows the completed set: marking
\* a candidate that is already completed leaves completed_items unchanged,
\* marking a new one appends exactly that candidate, so completed_items of a
\* fresh ScanState never holds a token twice and never loses an entry after any
\* sequence of worker operations, also when the wordlist repeats tokens.
C38_MarkCompletedIdempotent ==
    /\ [][\A w \in Workers :
             (wpc[w] = "mark" /\ wpc'[w] = "update" /\ ~IsNone(state)) =>
                 /\ ~IsNone(state')
                 /\ The(state').completed_items =
                       IF witem[w] \in Range(CompletedItems)
                       THEN CompletedItems
                       ELSE Append(CompletedItems, witem[w])
                 /\ The(state').found_results = The(state).found_results]_vars
    /\ [][(~IsNone(state) /\ run' = run) =>
             /\ ~IsNone(state')
             /\ IsPrefix(CompletedItems, The(state').completed_items)]_vars
    /\ []((~IsNone(state) /\ ~ghost.honoured) => NoRepeats(CompletedItems))

\* C38 witness: with the wordlist [a, a] and a fresh ScanState, the second a
\* has been marked and completed_items still holds a once
C38_Witness ==
    /\ ~IsNone(state)
    /\ ~ghost.honoured
    /\ progress.current = 1
    /\ \E w \in Workers :
          /\ wpc[w] = "update"
          /\ all_items = <<witem[w], witem[w]>>
          /\ CompletedItems = <<witem[w]>>

\* the moves of a worker from one step of its pass to the next
WorkerOrder ==
    {<<"none", "get">>, <<"get", "add">>, <<"get", "mark">>, <<"get", "dead">>,
     <<"get", "exited">>, <<"add", "mark">>, <<"mark", "update">>,
     <<"update", "task_done">>, <<"task_done", "get">>, <<"task_done", "exited">>}
\* the workers holding a candidate whose task_done is still to come
Holding == {w \in Workers : wpc[w] \in {"add", "mark", "update", "task_done", "dead"}}

\* C39: for each claimed candidate a worker performs its steps in a fixed
\* order: record the results, then mark the candidate completed, then advance
\* progress, then sleep the configured delay, and only then signal the queue
\* that the item is done; hence in a run with a ScanState, when the queue join
\* returns every enqueued candidate is in completed_items.
C39_WorkerStepOrder ==
    /\ [][\A w \in Workers :
             (wpc'[w] # wpc[w] /\ wpc'[w] # "none") =>
                 /\ <<wpc[w], wpc'[w]>> \in WorkerOrder
                 /\ wpc[w] = "add" => results' = Append(results, Head(wpending[w]))
                 /\ (wpc[w] = "mark" /\ ~IsNone(state)) =>
                       witem[w] \in Range(The(state').completed_items)
                 /\ wpc[w] = "update" =>
                       (progress'.current = progress.current + 1
                        /\ unfinished' = unfinished)
                 /\ wpc[w] = "task_done" => unfinished' = unfinished - 1
                 /\ wpc[w] # "task_done" => unfinished' = unfinished]_vars
    /\ []((Alive /\ ghost.enqueued) =>
            unfinished = Len(work_queue) + Cardinality(Holding))
    /\ []((~IsNone(state) /\ (\E w \in Workers : wpc[w] \in {"update", "task_done"})) =>
            \A w \in Workers :
               wpc[w] \in {"update", "task_done"} => witem[w] \in Range(CompletedItems))
    /\ [][(pc = "join" /\ pc' = "finish" /\ ~IsNone(state)) =>
             Range(scan_items) \subseteq Range(CompletedItems)]_vars

\* C39 witness: the join of a run with a ScanState has returned after two
\* candidates were enqueued, a result was recorded, and both are completed
C39_Witness ==
    /\ pc = "finish"
    /\ ~IsNone(state)
    /\ Len(scan_items) = 2
    /\ NoRepeats(scan_items)
    /\ results # <<>>
    /\ Range(scan_items) \subseteq Range(CompletedItems)
    /\ progress.current = 2
====
